---- MODULE Spec2Model ----
(***************************************************************************)
(* Verification model of the DocReasoner decision pipeline.                *)
(*                                                                         *)
(*   ReasoningLoop   src/src/reasoning_service/services/react_controller.py*)
(*   ControllerRouter src/src/reasoning_service/services/controller.py     *)
(*   RuleValidator   src/src/controller/validators.py                      *)
(*   RetrievalOrchestrator src/src/retrieval/service.py                    *)
(*   SafetyCalibrator src/src/reasoning_service/services/safety.py         *)
(*   ToolCache        src/src/reasoning_service/services/tool_handlers.py  *)
(*                                                                         *)
(* Confidences are integers in percent (0.75 is 75, 1.0 is 100).  Text is  *)
(* represented by its length where only the length is read by the code.    *)
(*                                                                         *)
(* react_controller.py declares _build_result_from_finish and              *)
(* _build_error_result with "def" although their bodies await the decision *)
(* log; the model takes them as the coroutines the callers treat them as:  *)
(* they build the result, log it (best effort) and return it.              *)
(***************************************************************************)
EXTENDS Integers, Sequences, FiniteSets, TLC

(***************************************************************************)
(* Bounds of the model.                                                    *)
(***************************************************************************)
\* max_iterations of the ReasoningLoop ranges over 1..MaxIterations
MaxIterations == 2
\* tool calls the LLM requests during one case evaluation, at most
MaxToolRuns == 3
\* max_iterations and tool calls per case when several criteria are evaluated
CaseIterations == 1
CaseToolRuns == 1
\* evaluations made on one delegating controller
MaxEvaluations == 2
\* facts added to a starting scenario of the validator
MaxExtra == 1
\* length of a long tool payload (longer than every truncation limit)
LongObs == 600
\* length of a short observation (an error payload, a finish summary)
ShortObs == 40
\* nodes in a payload of the tree search, at most
MaxNodes == 2
\* paragraphs in the text of a node, at most
MaxParagraphs == 1
\* tokens of a long excerpt: one stays under the span threshold, two exceed it
LongSpan == 1500
\* tokens of one paragraph of a node text
ParagraphTokens == 50
\* historical scores in a calibration pool, at most
MaxPool == 10
\* the k given to apply_self_consistency ranges over 0..MaxK (0 is None)
MaxK == 3
\* criterion evaluations that construct a tool executor, over all cases
MaxCriterionEvaluations == 3
\* retrievals made by the pi_search tool, over all criterion evaluations
MaxSearches == 2

(***************************************************************************)
(* Program constants.                                                      *)
(***************************************************************************)
\* settings.controller_tool_retry_limit, through max(0, .)
tool_retry_limit == 1
\* result[:500] in the reasoning trace
ObsLimit == 500
\* observation[:200] in the ReasoningStep of a result
StepObsLimit == 200
\* Field(ge=0.0, le=1.0) of confidence, in percent
ConfMin == 0
ConfMax == 100
\* EvidenceInfo.page: Field(ge=1)
MinEvidencePage == 1
\* LumbarMRIValidator.__init__ defaults; confidences are in percent
min_age == 18
min_treatment_weeks == 6
min_confidence_threshold == 75
\* settings.hybrid_tree_search_threshold (0.15), in percent
hybrid_threshold == 15
\* settings.node_span_token_threshold
node_span_token_threshold == 2000
\* confidence of _parse_payload when a node was returned (0.9), in percent
NodeConfidence == 90
\* top_k of FTS5Fallback.top_spans
top_k == 3
\* confidence of a TreeStore result (0.85), in percent
TreeStoreConfidence == 85
\* settings.self_consistency_k
self_consistency_k == 3
\* settings.self_consistency_threshold (0.7), in percent
self_consistency_threshold == 70
\* settings.conformal_alpha (0.1), in percent
conformal_alpha == 10

VARIABLES
    \* ---- ReasoningLoop (react_controller.py) ----
    lpc,             \* position of evaluate_case / _evaluate_criterion
    metadata,        \* case_bundle.metadata
    max_iterations,  \* self.max_iterations
    tool_budget,     \* tool calls the LLM may still request (environment)
    criteria,        \* the identified criteria
    results,         \* results of evaluate_case so far
    iteration,       \* loop counter of _evaluate_criterion
    llm_calls,       \* calls of llm.call_with_tools in this criterion
    messages,        \* conversation history
    reasoning_trace, \* reasoning_trace of _evaluate_criterion
    tool_history,    \* tool_history of _evaluate_criterion
    pending,         \* tool calls of the current response not yet executed
    attempts,        \* attempts of _execute_tool_call for the head of pending
    outcome,         \* how the last criterion evaluation ended
    response,        \* response: the answer of the last LLM call
    \* ---- ControllerRouter (controller.py) ----
    rpc,              \* position of the delegating ReActController
    shadow_mode,      \* self.shadow_mode
    use_llm,          \* self.use_llm
    fallback_enabled, \* self.fallback_enabled
    ab_ratio,         \* self.ab_ratio, in percent
    llm_controller,   \* self._llm_controller is set
    llm_init_error,   \* self._llm_init_error is set
    mode,             \* the mode _determine_mode selected
    ab_bucket,        \* the bucket given to record_ab_assignment, or "none"
    fallbacks,        \* reasons given to record_fallback in this evaluation
    heuristic_result, \* what the heuristic path did in this evaluation
    llm_result,       \* what the LLM path did in this evaluation
    shadow_log,       \* entries written by _log_shadow_diff
    served,           \* what evaluate_case returned
    evaluations,      \* evaluations started on this controller
    case_bundle,      \* the case bundle given to evaluate_case
    given_bundle,     \* the case bundle as the request created it
    bundle_events,    \* what this evaluation did with the bundle, in order
    \* ---- RuleValidator (controller/validators.py) ----
    vpc,              \* "input", "validated" or "revalidated"
    case_facts,       \* the case_facts given to validate_criterion
    validation,       \* the CriterionValidation of case_facts
    previous,         \* the CriterionValidation before a confidence was raised
    raised,           \* index of the fact whose confidence was raised, or 0
    extra,            \* facts added to the starting scenario
    \* ---- RetrievalOrchestrator (retrieval/service.py) ----
    spc,              \* position of RetrievalService.search
    doc_id,           \* the doc_id given to search ("" when missing)
    available,        \* self.client.available
    payload,          \* payload: what llm_tree_search returned
    hybrid_payload,   \* hybrid_payload: what hybrid_tree_search returned
    result,           \* result of search
    tightened,        \* tightened of _bm25_fallback
    ref_index,        \* position of _bm25_fallback in node_refs
    upstream,         \* the upstream calls made, with how each ended
    \* ---- SafetyCalibrator (safety.py, api/routes/reason.py) ----
    cpc,                \* "raw", "voted" or "calibrated"
    self_consistency,   \* request.self_consistency
    k_arg,              \* the k given to apply_self_consistency, 0 for None
    criterion_result,   \* the decision being post-processed
    raw_result,         \* the decision as the controller returned it
    voted_result,       \* the decision given to apply_conformal_prediction
    samples,            \* samples of apply_self_consistency
    sampler_calls,      \* calls of evaluate_fn
    calibration_scores, \* the pool of historical scores: score -> how many
    quantile,           \* quantile of apply_conformal_prediction, times 100
    \* ---- ToolCache (tool_handlers.py, react_controller.py) ----
    epc,                  \* "idle", or "evaluating" inside _evaluate_criterion
    criterion_evaluation, \* serial number of the _evaluate_criterion call
    fts5_service,         \* self.fts5_service is set
    has_policy_document,  \* metadata holds a policy_document_id
    retrieval_cache,      \* self._retrieval_cache: node_id -> cached node
    search_log,           \* the retrievals made: evaluation and node ids
    tool_result           \* result of the last tool call of the evaluation

loopVars == <<lpc, metadata, max_iterations, tool_budget, criteria, results,
              iteration, llm_calls, messages, reasoning_trace, tool_history,
              pending, attempts, outcome, response>>

routerVars == <<rpc, shadow_mode, use_llm, fallback_enabled, ab_ratio,
                llm_controller, llm_init_error, mode, ab_bucket, fallbacks,
                heuristic_result, llm_result, shadow_log, served, evaluations,
                case_bundle, given_bundle, bundle_events>>

validatorVars == <<vpc, case_facts, validation, previous, raised, extra>>

retrievalVars == <<spc, doc_id, available, payload, hybrid_payload, result,
                   tightened, ref_index, upstream>>

safetyVars == <<cpc, self_consistency, k_arg, criterion_result, raw_result,
                voted_result, samples, sampler_calls, calibration_scores,
                quantile>>

executorVars == <<epc, criterion_evaluation, fts5_service,
                  has_policy_document, retrieval_cache, search_log,
                  tool_result>>

vars == <<loopVars, routerVars, validatorVars, retrievalVars, safetyVars,
          executorVars>>

Min(a, b) == IF a < b THEN a ELSE b

(***************************************************************************)
(* Case metadata and _identify_criteria.                                   *)
(***************************************************************************)
policy_id == "LCD-L34220"

\* metadata["criteria"]: absent, a list (of strings or numbers), or a string
MdCriteria ==
    { [kind |-> "absent", items |-> <<>>],
      [kind |-> "list",   items |-> <<>>],
      [kind |-> "list",   items |-> <<[t |-> "str", v |-> "crit-1"]>>],
      [kind |-> "list",   items |-> <<[t |-> "str", v |-> "crit-1"],
                                      [t |-> "str", v |-> "crit-2"]>>],
      [kind |-> "list",   items |-> <<[t |-> "int", v |-> "7"],
                                      [t |-> "str", v |-> "crit-1"]>>],
      [kind |-> "str",    items |-> <<[t |-> "str", v |-> "crit-1"]>>] }

\* metadata["criterion_id"]: absent, a string (maybe empty) or a number
MdCriterionId ==
    { [kind |-> "absent", v |-> ""],
      [kind |-> "str",    v |-> ""],
      [kind |-> "str",    v |-> "single"],
      [kind |-> "int",    v |-> "5"] }

\* str(criterion)
PyStr(item) == item.v

DefaultCriterion == "LCD-L34220:default"

\* ReActController._identify_criteria
IdentifyCriteria(md) ==
    IF md.criteria.kind = "list" /\ md.criteria.items # <<>>
    THEN [i \in 1..Len(md.criteria.items) |-> PyStr(md.criteria.items[i])]
    ELSE IF md.criterion_id.kind = "str" /\ md.criterion_id.v # ""
         THEN <<md.criterion_id.v>>
         ELSE <<DefaultCriterion>>

(***************************************************************************)
(* The LLM capability: what call_with_tools can answer.                    *)
(***************************************************************************)
NoArgs == [kind |-> "none", status |-> "", has_confidence |-> FALSE,
           confidence |-> 0, evidence_doc |-> FALSE, has_page |-> FALSE,
           evidence_page |-> 0]

FinishStatuses == {"met", "missing", "uncertain", "bogus"}
\* <<has_confidence, confidence>>
FinishConfidences == {<<FALSE, 0>>, <<TRUE, 50>>, <<TRUE, 150>>}
\* <<evidence_doc_id given, evidence_page given, evidence_page>>
FinishEvidence == {<<FALSE, FALSE, 0>>, <<TRUE, FALSE, 0>>,
                   <<TRUE, TRUE, 0>>, <<TRUE, TRUE, 1>>}

\* the arguments text of a finish call: not JSON, JSON that is no object,
\* or an object
FinishArgs ==
    { [NoArgs EXCEPT !.kind = "bad_json"], [NoArgs EXCEPT !.kind = "non_object"] }
    \cup
    { [kind |-> "object", status |-> s, has_confidence |-> c[1],
       confidence |-> c[2], evidence_doc |-> e[1], has_page |-> e[2],
       evidence_page |-> e[3]] :
         s \in FinishStatuses, c \in FinishConfidences, e \in FinishEvidence }

SearchCall == [name |-> "pi_search", args |-> NoArgs]
FinishCall(a) == [name |-> "finish", args |-> a]

\* the tool_calls of a response: n calls, the one at position pos (0: none)
\* being finish(a), the others pi_search
ToolCalls(n, pos, a) ==
    [i \in 1..n |-> IF i = pos THEN FinishCall(a) ELSE SearchCall]

FinishReasons == {"stop", "tool_calls", "length"}

\* LLMClient.call_with_tools: every failure of the provider is wrapped into
\* LLMClientError; otherwise a response {content, tool_calls, finish_reason}
LLMResponses(budget) ==
    { [kind |-> "error", tool_calls |-> <<>>, finish_reason |-> "none"] }
    \cup
    { [kind |-> "ok", tool_calls |-> <<>>, finish_reason |-> fr] :
         fr \in FinishReasons }
    \cup
    { [kind |-> "ok", tool_calls |-> ToolCalls(n, 0, NoArgs),
       finish_reason |-> "tool_calls"] : n \in 1..budget }
    \cup
    { [kind |-> "ok", tool_calls |-> ToolCalls(np[1], np[2], a),
       finish_reason |-> fr] :
         np \in {x \in (1..(budget + 1)) \X (1..(budget + 1)) : x[2] <= x[1]},
         a \in FinishArgs, fr \in {"stop", "tool_calls"} }

\* no LLM call was made yet in this criterion evaluation
NoResponse == [kind |-> "none", tool_calls |-> <<>>, finish_reason |-> "none"]

\* index of the first finish call of a tool_calls list, 0 if none
FirstFinish(tcs) ==
    IF \E i \in 1..Len(tcs) : tcs[i].name = "finish"
    THEN CHOOSE i \in 1..Len(tcs) :
            /\ tcs[i].name = "finish"
            /\ \A j \in 1..(i - 1) : tcs[j].name # "finish"
    ELSE 0

(***************************************************************************)
(* CriterionResult construction.                                           *)
(***************************************************************************)
NoResult == [criterion_id |-> "", status |-> "none", reason_code |-> "none",
             rationale |-> "", confidence |-> 0, evidence |-> FALSE,
             reasoning_trace |-> <<>>]

\* the ReasoningStep list of a result: observation[:200]
ResultSteps(trace) ==
    [i \in 1..Len(trace) |->
        [step |-> trace[i].step, action |-> trace[i].action,
         observation |-> Min(trace[i].observation, StepObsLimit)]]

\* an error result that drops the reasoning steps
BuildErrorResultNoTrace(criterion_id, error, trace, reason_code) ==
    [criterion_id |-> criterion_id, status |-> "uncertain",
     reason_code |-> reason_code, rationale |-> error, confidence |-> 0,
     evidence |-> FALSE, reasoning_trace |-> <<>>]

\* ReActController._build_error_result
BuildErrorResult(criterion_id, error, trace, reason_code) ==
    [criterion_id |-> criterion_id, status |-> "uncertain",
     reason_code |-> reason_code, rationale |-> error, confidence |-> 0,
     evidence |-> FALSE, reasoning_trace |-> ResultSteps(trace)]

\* status_map.get(decision_args.get("status", "uncertain"), UNCERTAIN)
FinishStatus(a) ==
    IF a.status \in {"met", "missing", "uncertain"} THEN a.status ELSE "uncertain"

\* decision_args.get("confidence", 0.0)
FinishConfidence(a) == IF a.has_confidence THEN a.confidence ELSE 0

\* the pydantic validation of ConfidenceBreakdown, EvidenceInfo and
\* CriterionResult accepts the finish arguments
FinishArgsValid(a) ==
    /\ FinishConfidence(a) >= ConfMin
    /\ FinishConfidence(a) <= ConfMax
    /\ a.evidence_doc =>
          (IF a.has_page THEN a.evidence_page ELSE 0) >= MinEvidencePage

\* ReActController._build_result_from_finish, when validation accepts
BuildResultFromFinish(criterion_id, a, trace) ==
    [criterion_id |-> criterion_id, status |-> FinishStatus(a),
     reason_code |-> IF FinishStatus(a) # "uncertain" THEN "null"
                     ELSE "agent_uncertain",
     rationale |-> "agent rationale", confidence |-> FinishConfidence(a),
     evidence |-> a.evidence_doc, reasoning_trace |-> ResultSteps(trace)]

(***************************************************************************)
(* evaluate_case and _evaluate_criterion.                                  *)
(***************************************************************************)
CurrentCriterion == criteria[Len(results) + 1]

SystemMessage == [role |-> "system", content |-> ShortObs]
UserMessage == [role |-> "user", content |-> ShortObs]
AssistantMessage == [role |-> "assistant", content |-> ShortObs]
ToolMessage(n) == [role |-> "tool", content |-> n]

\* return of _evaluate_criterion into the loop of evaluate_case
ReturnResult(r, how) ==
    /\ results' = Append(results, r)
    /\ outcome' = how
    /\ lpc' = "criterion"

\* an exception leaves _evaluate_criterion and evaluate_case
Raise(how) ==
    /\ outcome' = how
    /\ lpc' = "raised"
    /\ UNCHANGED results

\* evaluate_case, up to the loop over the criteria
EvaluateCase ==
    /\ lpc = "start"
    /\ metadata' = [metadata EXCEPT !.policy_document_id = "doc-123"]
    /\ criteria' = IdentifyCriteria(metadata')
    /\ lpc' = "criterion"
    /\ UNCHANGED <<max_iterations, tool_budget, results, iteration, llm_calls,
                   messages, reasoning_trace, tool_history, pending, attempts,
                   outcome, response>>

\* the loop of evaluate_case: the next criterion starts _evaluate_criterion
\* (fresh messages, trace and tool history), or the results are returned
NextCriterion ==
    /\ lpc = "criterion"
    /\ IF Len(results) < Len(criteria)
       THEN /\ lpc' = "llm"
            /\ messages' = <<SystemMessage, UserMessage>>
            /\ reasoning_trace' = <<>>
            /\ tool_history' = <<>>
            /\ iteration' = 0
            /\ llm_calls' = 0
            /\ pending' = <<>>
            /\ attempts' = 0
            /\ outcome' = "running"
            /\ response' = NoResponse
       ELSE /\ lpc' = "returned"
            /\ UNCHANGED <<messages, reasoning_trace, tool_history, iteration,
                           llm_calls, pending, attempts, outcome, response>>
    /\ UNCHANGED <<metadata, max_iterations, tool_budget, criteria, results>>

\* the finish call of a response (react_controller.py 199-235)
HandleFinish(a) ==
    CASE a.kind = "bad_json" ->
            /\ ReturnResult(BuildErrorResult(CurrentCriterion,
                   "Agent error: Failed to parse finish() arguments",
                   reasoning_trace, "agent_error"), "finish_parse_error")
            /\ UNCHANGED <<reasoning_trace, tool_history>>
      [] a.kind = "non_object" ->
            \* decision_args.get raises AttributeError: not a JSONDecodeError
            /\ Raise("raised_finish_not_object")
            /\ UNCHANGED <<reasoning_trace, tool_history>>
      [] OTHER ->
            /\ reasoning_trace' = Append(reasoning_trace,
                   [step |-> iteration', action |-> "finish",
                    observation |-> ShortObs])
            /\ tool_history' = Append(tool_history,
                   [action |-> "finish", success |-> TRUE, attempt |-> 1,
                    timeout |-> FALSE])
            /\ IF FinishArgsValid(a)
               THEN ReturnResult(BuildResultFromFinish(CurrentCriterion, a,
                                     reasoning_trace'), "finish")
               ELSE Raise("raised_finish_validation")

\* a response without tool calls always ends the evaluation
StalledOnAnyReason(resp) == resp.tool_calls = <<>>

\* a response without tool calls never ends the evaluation
StalledNever(resp) == FALSE

\* _evaluate_criterion: not response.get("tool_calls") and
\* response.get("finish_reason") == "stop"
Stalled(resp) == resp.tool_calls = <<>> /\ resp.finish_reason = "stop"

\* while iteration < self.max_iterations, one call too many
WhileConditionOffByOne(i, n) == i <= n

\* while iteration < self.max_iterations
WhileCondition(i, n) == i < n

\* one iteration of the loop up to the execution of the tool calls:
\* the LLM call and what the response selects
LLMStep ==
    /\ lpc = "llm"
    /\ WhileCondition(iteration, max_iterations)
    /\ \E resp \in LLMResponses(tool_budget) :
         /\ iteration' = iteration + 1
         /\ llm_calls' = llm_calls + 1
         /\ response' = resp
         /\ IF resp.kind = "error"
            THEN /\ ReturnResult(BuildErrorResult(CurrentCriterion,
                        "Agent error: LLM call failed", reasoning_trace,
                        "agent_error"), "llm_error")
                 /\ UNCHANGED <<messages, reasoning_trace, tool_history,
                                pending, tool_budget>>
            ELSE /\ messages' = Append(messages, AssistantMessage)
                 /\ IF FirstFinish(resp.tool_calls) # 0
                    THEN /\ HandleFinish(
                               resp.tool_calls[FirstFinish(resp.tool_calls)].args)
                         /\ UNCHANGED <<pending, tool_budget>>
                    ELSE IF resp.tool_calls # <<>>
                    THEN /\ pending' = resp.tool_calls
                         /\ tool_budget' = tool_budget - Len(resp.tool_calls)
                         /\ lpc' = "tools"
                         /\ UNCHANGED <<reasoning_trace, tool_history, results,
                                        outcome>>
                    ELSE IF Stalled(resp)
                    THEN /\ ReturnResult(BuildErrorResult(CurrentCriterion,
                               "Agent error: Agent stopped without calling finish()",
                               reasoning_trace, "agent_error"), "stall")
                         /\ UNCHANGED <<reasoning_trace, tool_history, pending,
                                        tool_budget>>
                    ELSE /\ lpc' = "llm"
                         /\ UNCHANGED <<reasoning_trace, tool_history, pending,
                                        tool_budget, results, outcome>>
    /\ UNCHANGED <<metadata, max_iterations, criteria, attempts>>

\* the loop condition fails: max iterations reached
MaxIterationsReached ==
    /\ lpc = "llm"
    /\ ~WhileCondition(iteration, max_iterations)
    /\ ReturnResult(BuildErrorResult(CurrentCriterion,
           "Agent error: Max iterations (N) reached", reasoning_trace,
           "agent_error"), "max_iterations")
    /\ UNCHANGED <<metadata, max_iterations, tool_budget, criteria, iteration,
                   llm_calls, messages, reasoning_trace, tool_history, pending,
                   attempts, response>>

\* the first timeout ends the tool call
GivesUpEarly(n, limit) == n >= limit

\* the last timeout is not the last attempt
GivesUpLate(n, limit) == n > limit + 1

\* _execute_tool_call: if attempts > self.tool_retry_limit: return None
GivesUp(n, limit) == n > limit

\* _execute_tool_call: while attempts <= self.tool_retry_limit
RetryCondition(a, limit) == a <= limit

\* what one attempt of executor.execute can do
ToolOutcomes == {"success", "timeout", "exception"}

\* the tool call is done, its observation goes to the trace only
DropObservation(call, n) ==
    /\ reasoning_trace' = Append(reasoning_trace,
           [step |-> iteration, action |-> call.name,
            observation |-> Min(n, ObsLimit)])
    /\ pending' = Tail(pending)
    /\ attempts' = 0
    /\ lpc' = IF Tail(pending) = <<>> THEN "llm" ELSE "tools"
    /\ UNCHANGED <<messages, results, outcome>>

\* the tool call is done: its observation goes to the trace and the history
RecordObservation(call, n) ==
    /\ reasoning_trace' = Append(reasoning_trace,
           [step |-> iteration, action |-> call.name,
            observation |-> Min(n, ObsLimit)])
    /\ messages' = Append(messages, ToolMessage(n))
    /\ pending' = Tail(pending)
    /\ attempts' = 0
    /\ lpc' = IF Tail(pending) = <<>> THEN "llm" ELSE "tools"
    /\ UNCHANGED <<results, outcome>>

\* one attempt of _execute_tool_call for the next tool call of the response,
\* and, when the call is over, what _evaluate_criterion does with its result
ToolAttempt ==
    /\ lpc = "tools"
    /\ pending # <<>>
    /\ RetryCondition(attempts, tool_retry_limit)
    /\ \E out \in ToolOutcomes :
         LET call == Head(pending)
             n == attempts + 1
         IN CASE out = "success" ->
                   /\ tool_history' = Append(tool_history,
                          [action |-> call.name, success |-> TRUE,
                           attempt |-> n, timeout |-> FALSE])
                   /\ RecordObservation(call, LongObs)
              [] out = "exception" ->
                   /\ tool_history' = Append(tool_history,
                          [action |-> call.name, success |-> FALSE,
                           attempt |-> n, timeout |-> FALSE])
                   /\ RecordObservation(call, ShortObs)
              [] OTHER ->
                   /\ tool_history' = Append(tool_history,
                          [action |-> call.name, success |-> FALSE,
                           attempt |-> n, timeout |-> TRUE])
                   /\ IF GivesUp(n, tool_retry_limit)
                      THEN /\ reasoning_trace' = Append(reasoning_trace,
                                  [step |-> iteration, action |-> call.name,
                                   observation |-> ShortObs])
                           /\ ReturnResult(BuildErrorResult(CurrentCriterion,
                                  "Agent error: tool timed out",
                                  reasoning_trace', "tool_timeout"),
                                  "tool_timeout")
                           /\ attempts' = n
                           /\ UNCHANGED <<messages, pending>>
                      ELSE /\ attempts' = n
                           /\ UNCHANGED <<reasoning_trace, messages, pending,
                                          results, outcome, lpc>>
    /\ UNCHANGED <<metadata, max_iterations, tool_budget, criteria, iteration,
                   llm_calls, response>>

(***************************************************************************)
(* ControllerRouter: the delegating ReActController of controller.py.      *)
(***************************************************************************)
AbRatios == {0, 50, 100}
\* self._rng.random(), in percent
RngDraws == {0, 50, 99}

NotRun == [kind |-> "not_run", results |-> <<>>]
Raised == [kind |-> "raise", results |-> <<>>]
Returned(rs) == [kind |-> "result", results |-> rs]

RouterResult(c, s, conf) == [criterion_id |-> c, status |-> s, confidence |-> conf]

\* what HeuristicReActController.evaluate_case can do: results, or an
\* exception of the retrieval service
HeuristicOutcomes ==
    { Returned(<<RouterResult("crit-1", s, c)>>) :
         s \in {"met", "uncertain"}, c \in {60, 80} } \cup {Raised}

\* what the LLM controller's evaluate_case can do: results, or an exception
LLMOutcomes ==
    { Returned(<<RouterResult(k, s, 84)>>) :
         k \in {"crit-1", "crit-2"}, s \in {"met", "uncertain"} }
    \cup {Returned(<<>>), Raised}

\* a CaseBundle whose metadata holds, or not ("none"), a policy_document_id
CaseBundle(annotation) ==
    [case_id |-> "case-1", policy_id |-> "LCD-33822",
     fields |-> <<"age", "diagnosis">>,
     metadata |-> [criteria |-> <<"crit-1">>,
                   policy_document_id |-> annotation]]

\* the case bundles a request creates
CaseBundles == {CaseBundle("none"), CaseBundle("doc-old")}

\* the annotation written over the criteria of the metadata as well
AnnotateOverCriteria(bundle, policy_document_id) ==
    [bundle EXCEPT !.metadata = [policy_document_id |-> policy_document_id,
                                 criteria |-> <<>>]]

\* case_bundle.metadata["policy_document_id"] = policy_document_id
Annotate(bundle, policy_document_id) ==
    [bundle EXCEPT !.metadata.policy_document_id = policy_document_id]

\* the LLM controller's evaluate_case on the bundle: the annotation, then
\* the criteria when it returns results
LLMBundleEvents(out) ==
    IF out.kind = "result" /\ out.results # <<>>
    THEN <<"annotate", "llm_criterion">> ELSE <<"annotate">>

\* ReActController._llm_requested
LLMRequested == use_llm \/ shadow_mode \/ ab_ratio > 0

\* ReActController._determine_mode: the mode, with the controller as
\* _ensure_llm_controller left it and the draw the rng would give
DetermineMode(ctrl, draw) ==
    IF shadow_mode /\ ctrl THEN "shadow"
    ELSE IF use_llm /\ ctrl THEN "llm"
    ELSE IF ab_ratio > 0 /\ ctrl
         THEN (IF draw < ab_ratio THEN "llm" ELSE "heuristic")
         ELSE "heuristic"

\* ReActController._determine_mode: the bucket recorded by
\* record_ab_assignment, "none" when the rng is not consulted
AbAssignment(ctrl, draw) ==
    IF shadow_mode /\ ctrl THEN "none"
    ELSE IF use_llm /\ ctrl THEN "none"
    ELSE IF ab_ratio > 0 /\ ctrl
         THEN (IF draw < ab_ratio THEN "llm" ELSE "heuristic")
         ELSE "none"

Abs(x) == IF x < 0 THEN -x ELSE x

\* ReActController._log_shadow_diff: one entry per heuristic result whose
\* counterpart is missing or differs
LogShadowDiff(hs, ls) ==
    LET Counterparts(h) == {k \in 1..Len(ls) : ls[k].criterion_id = h.criterion_id}
        Entry(h) ==
            IF Counterparts(h) = {} THEN "missing"
            ELSE LET c == ls[CHOOSE k \in Counterparts(h) :
                                 \A m \in Counterparts(h) : m <= k]
                 IN IF h.status # c.status \/ Abs(h.confidence - c.confidence) > 5
                    THEN "mismatch" ELSE "agree"
    IN [i \in 1..Len(hs) |-> Entry(hs[i])]

\* the heuristic path always follows a failure of the LLM path
AlwaysFallBack(enabled) == "heuristic"

\* evaluate_case, llm mode, after record_fallback: raise, or the heuristic
FallbackAfterLLMError(enabled) == IF ~enabled THEN "raise" ELSE "heuristic"

\* the LLM results are served when there are any
ServeShadowLLM(heuristic_results, llm_results) ==
    IF llm_results.kind = "result" THEN llm_results ELSE heuristic_results

\* evaluate_case, shadow mode: return heuristic_results
ShadowServed(heuristic_results, llm_results) == heuristic_results

\* __init__: the settings are read; the LLM controller is created if one
\* of them asks for it, which may fail
RouterConstruct ==
    /\ rpc = "new"
    /\ \E ok \in BOOLEAN :
         /\ llm_controller' = (LLMRequested /\ ok)
         /\ llm_init_error' = (LLMRequested /\ ~ok)
    /\ rpc' = "idle"
    /\ UNCHANGED <<shadow_mode, use_llm, fallback_enabled, ab_ratio, mode,
                   ab_bucket, fallbacks, heuristic_result, llm_result,
                   shadow_log, served, evaluations, case_bundle, given_bundle,
                   bundle_events>>

\* evaluate_case up to its first await: _ensure_llm_controller, then
\* _determine_mode
RouterEvaluate ==
    /\ rpc = "idle"
    /\ evaluations < MaxEvaluations
    /\ evaluations' = evaluations + 1
    /\ \E ok \in BOOLEAN, draw \in RngDraws :
         LET retry == ~llm_controller /\ LLMRequested
             ctrl == IF retry THEN ok ELSE llm_controller
         IN /\ llm_controller' = ctrl
            /\ llm_init_error' = IF retry THEN ~ok ELSE llm_init_error
            /\ mode' = DetermineMode(ctrl, draw)
            /\ ab_bucket' = AbAssignment(ctrl, draw)
    /\ rpc' = "run"
    /\ fallbacks' = <<>>
    /\ heuristic_result' = NotRun
    /\ llm_result' = NotRun
    /\ shadow_log' = <<>>
    /\ served' = NotRun
    /\ \E bundle \in CaseBundles :
         /\ case_bundle' = bundle
         /\ given_bundle' = bundle
    /\ bundle_events' = <<>>
    /\ UNCHANGED <<shadow_mode, use_llm, fallback_enabled, ab_ratio>>

\* _run_heuristic: in shadow mode before the LLM path, as the fallback of
\* the llm mode, or as the default path
RunHeuristic ==
    /\ \/ rpc = "run" /\ mode \in {"shadow", "heuristic"}
       \/ rpc = "fallback"
    /\ \E out \in HeuristicOutcomes :
         /\ heuristic_result' = out
         /\ bundle_events' = IF out.kind = "result"
                             THEN Append(bundle_events, "heuristic_criterion")
                             ELSE bundle_events
         /\ IF out.kind = "raise"
            THEN /\ rpc' = "raised"
                 /\ served' = Raised
            ELSE IF rpc = "run" /\ mode = "shadow"
            THEN /\ rpc' = "shadow_llm"
                 /\ UNCHANGED served
            ELSE /\ rpc' = "served"
                 /\ served' = out
    /\ UNCHANGED <<shadow_mode, use_llm, fallback_enabled, ab_ratio,
                   llm_controller, llm_init_error, mode, ab_bucket, fallbacks,
                   llm_result, shadow_log, evaluations, case_bundle,
                   given_bundle>>

\* the llm mode: _run_llm, and what evaluate_case does when it raises
RunLLM ==
    /\ rpc = "run"
    /\ mode = "llm"
    /\ \E out \in (IF llm_controller THEN LLMOutcomes ELSE {Raised}) :
         /\ llm_result' = out
         /\ IF llm_controller
            THEN /\ case_bundle' = Annotate(case_bundle, "doc-123")
                 /\ bundle_events' = bundle_events \o LLMBundleEvents(out)
            ELSE UNCHANGED <<case_bundle, bundle_events>>
         /\ IF out.kind = "raise"
            THEN /\ fallbacks' = Append(fallbacks, "llm_error")
                 /\ IF FallbackAfterLLMError(fallback_enabled) = "raise"
                    THEN /\ rpc' = "raised"
                         /\ served' = Raised
                    ELSE /\ rpc' = "fallback"
                         /\ UNCHANGED served
            ELSE /\ rpc' = "served"
                 /\ served' = out
                 /\ UNCHANGED fallbacks
    /\ UNCHANGED <<shadow_mode, use_llm, fallback_enabled, ab_ratio,
                   llm_controller, llm_init_error, mode, ab_bucket,
                   heuristic_result, shadow_log, evaluations, given_bundle>>

\* the shadow mode after the heuristic path: _maybe_run_llm, the comparison
\* log, and the return of the heuristic results
MaybeRunLLM ==
    /\ rpc = "shadow_llm"
    /\ \E out \in (IF llm_controller THEN LLMOutcomes ELSE {NotRun}) :
         /\ llm_result' = out
         /\ IF llm_controller
            THEN /\ case_bundle' = Annotate(case_bundle, "doc-123")
                 /\ bundle_events' = bundle_events \o LLMBundleEvents(out)
            ELSE UNCHANGED <<case_bundle, bundle_events>>
         /\ fallbacks' = IF out.kind = "raise"
                         THEN Append(fallbacks, "shadow_llm_error")
                         ELSE fallbacks
         /\ shadow_log' = IF out.kind = "result"
                          THEN LogShadowDiff(heuristic_result.results, out.results)
                          ELSE <<>>
         /\ served' = ShadowServed(heuristic_result, out)
    /\ rpc' = "served"
    /\ UNCHANGED <<shadow_mode, use_llm, fallback_enabled, ab_ratio,
                   llm_controller, llm_init_error, mode, ab_bucket,
                   heuristic_result, evaluations, given_bundle>>

\* the caller has the outcome; the controller is ready for the next case
RouterDone ==
    /\ rpc \in {"served", "raised"}
    /\ evaluations < MaxEvaluations
    /\ rpc' = "idle"
    /\ UNCHANGED <<shadow_mode, use_llm, fallback_enabled, ab_ratio,
                   llm_controller, llm_init_error, mode, ab_bucket, fallbacks,
                   heuristic_result, llm_result, shadow_log, served,
                   evaluations, case_bundle, given_bundle, bundle_events>>

(***************************************************************************)
(* RuleValidator: LumbarMRIValidator of controller/validators.py.          *)
(***************************************************************************)
APPROVED_ICD10_CODES ==
    {"M48.06", "M48.07", "M51.16", "M51.36", "M51.37", "M54.5", "M99.99"}

RED_FLAG_CONDITIONS ==
    {"progressive neurological deficit", "cauda equina syndrome",
     "suspected tumor", "suspected infection", "suspected fracture",
     "bowel or bladder dysfunction"}

\* fact values: numbers, strings and booleans
Num(n) == [kind |-> "num", n |-> n, s |-> "", b |-> FALSE]
Str(t) == [kind |-> "str", n |-> 0, s |-> t, b |-> FALSE]
Bool(b) == [kind |-> "bool", n |-> IF b THEN 1 ELSE 0, s |-> "", b |-> b]

Fact(f, v, c) == [field |-> f, value |-> v, confidence |-> c]

\* isinstance(value, (int, float)); a Python bool is an int
IsNumeric(v) == v.kind \in {"num", "bool"}

\* str(value).strip() of a diagnosis value; the text of a number or of a
\* boolean is no ICD-10 code
CodeOf(v) == IF v.kind = "str" THEN v.s ELSE "not a code"

\* the vocabulary entries that occur in str(value).lower()
KnownFlagsIn(v) ==
    IF v.kind # "str" THEN {}
    ELSE IF v.s = "progressive neurological deficit"
         THEN {"progressive neurological deficit"}
    ELSE IF v.s = "Suspected Tumor of the lumbar spine"
         THEN {"suspected tumor"}
    ELSE {}

FieldNames == {"age", "primary_diagnosis", "secondary_diagnosis",
               "conservative_treatment_weeks", "red_flag_present",
               "red_flag_confirmed", "red_flag_type"}

\* _group_facts_by_field
GroupFactsByField(facts) ==
    [f \in FieldNames |-> SelectSeq(facts, LAMBDA x : x.field = f)]

\* the first fact of minimal confidence
MinConfidenceFact(facts) ==
    facts[CHOOSE i \in 1..Len(facts) :
            /\ \A j \in 1..Len(facts) : facts[j].confidence >= facts[i].confidence
            /\ \A j \in 1..(i - 1) : facts[j].confidence > facts[i].confidence]

\* max(facts, key=confidence): the first fact of maximal confidence
MaxConfidenceFact(facts) ==
    facts[CHOOSE i \in 1..Len(facts) :
            /\ \A j \in 1..Len(facts) : facts[j].confidence <= facts[i].confidence
            /\ \A j \in 1..(i - 1) : facts[j].confidence < facts[i].confidence]

ValidationResult(ok, c, reason, supporting) ==
    [is_valid |-> ok, confidence |-> c, reason |-> reason,
     supporting_facts |-> supporting]

\* _validate_age
ValidateAge(age_facts) ==
    IF age_facts = <<>>
    THEN ValidationResult(FALSE, 0, "Age information missing", <<>>)
    ELSE LET age_fact == MaxConfidenceFact(age_facts)
             confidence == age_fact.confidence
         IN IF confidence < min_confidence_threshold
            THEN ValidationResult(FALSE, confidence,
                                  "Age documentation has low confidence", <<age_fact>>)
            ELSE IF ~IsNumeric(age_fact.value)
            THEN ValidationResult(FALSE, 0, "Age value is not numeric", <<age_fact>>)
            ELSE IF age_fact.value.n >= min_age
            THEN ValidationResult(TRUE, confidence,
                                  "Patient age meets minimum requirement", <<age_fact>>)
            ELSE ValidationResult(FALSE, confidence,
                                  "Patient age is below minimum", <<age_fact>>)

\* _validate_diagnosis
ValidateDiagnosis(diagnosis_facts) ==
    LET Low == {i \in 1..Len(diagnosis_facts) :
                   diagnosis_facts[i].confidence < min_confidence_threshold}
        approved == SelectSeq(diagnosis_facts,
                        LAMBDA x : CodeOf(x.value) \in APPROVED_ICD10_CODES)
        unapproved == SelectSeq(diagnosis_facts,
                        LAMBDA x : CodeOf(x.value) \notin APPROVED_ICD10_CODES)
    IN IF diagnosis_facts = <<>>
       THEN ValidationResult(FALSE, 0, "Diagnosis code missing", <<>>)
       ELSE IF Low # {}
       THEN LET fact == diagnosis_facts[CHOOSE i \in Low : \A j \in Low : i <= j]
            IN ValidationResult(FALSE, fact.confidence,
                                "Diagnosis code has low confidence", <<fact>>)
       ELSE IF approved # <<>>
       THEN LET fact == MaxConfidenceFact(approved)
            IN ValidationResult(TRUE, fact.confidence,
                                "Diagnosis is in approved ICD-10-CM list", <<fact>>)
       ELSE ValidationResult(FALSE, unapproved[1].confidence,
                             "Diagnosis is not in approved ICD-10-CM list for lumbar MRI",
                             <<unapproved[1]>>)

\* _validate_red_flags
ValidateRedFlags(facts_by_field) ==
    LET red_flag_present == facts_by_field["red_flag_present"]
        red_flag_confirmed == facts_by_field["red_flag_confirmed"]
        red_flag_type == facts_by_field["red_flag_type"]
        IsTrue(v) == v.kind = "bool" /\ v.b
        confirmed ==
            /\ red_flag_confirmed # <<>>
            /\ IsTrue(red_flag_confirmed[1].value)
            /\ red_flag_confirmed[1].confidence >= min_confidence_threshold
            /\ red_flag_type # <<>>
            /\ KnownFlagsIn(red_flag_type[1].value) \cap RED_FLAG_CONDITIONS # {}
        unconfirmed ==
            /\ red_flag_present # <<>>
            /\ IsTrue(red_flag_present[1].value)
            /\ red_flag_present[1].confidence < min_confidence_threshold
    IN IF confirmed
       THEN ValidationResult(TRUE, red_flag_confirmed[1].confidence,
                             "Red flag present",
                             <<red_flag_confirmed[1]>> \o red_flag_type)
       ELSE IF unconfirmed
       THEN ValidationResult(FALSE, red_flag_present[1].confidence,
                             "Red flag reported but confidence too low",
                             <<red_flag_present[1]>>)
       ELSE ValidationResult(FALSE, 100, "No red flags present", <<>>)

BypassReason == "Conservative treatment requirement bypassed due to red flags"

\* _validate_treatment_duration
ValidateTreatmentDuration(treatment_facts, bypass) ==
    IF bypass
    THEN ValidationResult(TRUE, 100, BypassReason, <<>>)
    ELSE IF treatment_facts = <<>>
    THEN ValidationResult(FALSE, 0,
                          "Conservative treatment duration not documented", <<>>)
    ELSE LET treatment_fact == MaxConfidenceFact(treatment_facts)
             confidence == treatment_fact.confidence
         IN IF confidence < min_confidence_threshold
            THEN ValidationResult(FALSE, confidence,
                                  "Treatment duration has low confidence",
                                  <<treatment_fact>>)
            ELSE IF ~IsNumeric(treatment_fact.value)
            THEN ValidationResult(FALSE, 0, "Treatment duration is not numeric",
                                  <<treatment_fact>>)
            ELSE IF treatment_fact.value.n >= min_treatment_weeks
            THEN ValidationResult(TRUE, confidence,
                                  "Conservative treatment meets minimum",
                                  <<treatment_fact>>)
            ELSE ValidationResult(FALSE, confidence,
                                  "Conservative treatment is below minimum",
                                  <<treatment_fact>>)

critical_fields == <<"age", "diagnosis", "treatment">>

\* a failed field decides before a field of low confidence
StatusFailedFirst(low_confidence_fields, failed_fields) ==
    IF failed_fields # <<>> THEN "not_ready"
    ELSE IF low_confidence_fields # <<>> THEN "uncertain"
    ELSE "ready"

\* failed fields do not count: ready unless a confidence is low
StatusIgnoringFailures(low_confidence_fields, failed_fields) ==
    IF low_confidence_fields # <<>> THEN "uncertain" ELSE "ready"

\* _compute_overall_status: "Determine status"
StatusOf(low_confidence_fields, failed_fields) ==
    IF low_confidence_fields # <<>> THEN "uncertain"
    ELSE IF failed_fields # <<>> THEN "not_ready"
    ELSE "ready"

\* _compute_overall_status
ComputeOverallStatus(validations) ==
    LET low_confidence_fields ==
            SelectSeq(critical_fields,
                LAMBDA f : validations[f].confidence < min_confidence_threshold)
        failed_fields ==
            SelectSeq(critical_fields,
                LAMBDA f : /\ validations[f].confidence >= min_confidence_threshold
                           /\ ~validations[f].is_valid
                           /\ f # "treatment")
            \o (IF ~validations["treatment"].is_valid
                    /\ ~validations["red_flags"].is_valid
                THEN <<"treatment">> ELSE <<>>)
        overall_confidence ==
            Min(validations["age"].confidence,
                Min(validations["diagnosis"].confidence,
                    validations["treatment"].confidence))
        Outcome(status, reason_code, rationale) ==
            [status |-> status, reason_code |-> reason_code,
             validations |-> validations,
             overall_confidence |-> overall_confidence,
             rationale |-> rationale]
        status == StatusOf(low_confidence_fields, failed_fields)
    IN IF status = "uncertain"
       THEN Outcome("uncertain", "insufficient_documentation", low_confidence_fields)
       ELSE IF status = "not_ready"
       THEN Outcome("not_ready", "criteria_not_met",
                    [i \in 1..Len(failed_fields) |-> validations[failed_fields[i]].reason])
       ELSE Outcome("ready", "None",
                    LET ok == SelectSeq(critical_fields, LAMBDA f : validations[f].is_valid)
                    IN [i \in 1..Len(ok) |-> validations[ok[i]].reason])

\* the treatment requirement is never bypassed
NoBypass(red_flag_validation) == FALSE

\* validate_criterion: bypass=red_flag_validation.is_valid
Bypass(red_flag_validation) == red_flag_validation.is_valid

\* validate_criterion
ValidateCriterion(facts) ==
    LET facts_by_field == GroupFactsByField(facts)
        red_flag_validation == ValidateRedFlags(facts_by_field)
    IN ComputeOverallStatus(
         [age |-> ValidateAge(facts_by_field["age"]),
          diagnosis |-> ValidateDiagnosis(facts_by_field["primary_diagnosis"]
                                          \o facts_by_field["secondary_diagnosis"]),
          red_flags |-> red_flag_validation,
          treatment |-> ValidateTreatmentDuration(
                            facts_by_field["conservative_treatment_weeks"],
                            Bypass(red_flag_validation))])

NoValidation ==
    LET none == ValidationResult(FALSE, 0, "", <<>>)
    IN [status |-> "none", reason_code |-> "None",
        validations |-> [age |-> none, diagnosis |-> none,
                         red_flags |-> none, treatment |-> none],
        overall_confidence |-> 0, rationale |-> <<>>]

\* the confidences a caller may report, in percent
Confidences == {50, 80, 90, 95, 100}

\* the literal scenarios of the specification, and the empty fact list
Scenarios ==
    LET age(n) == Fact("age", Num(n), 100)
        diagnosis(code, c) == Fact("primary_diagnosis", Str(code), c)
        weeks(n) == Fact("conservative_treatment_weeks", Num(n), 90)
    IN { <<>>,
         <<age(45), diagnosis("M54.5", 95), weeks(8)>>,
         <<age(16), diagnosis("M54.5", 95), weeks(8)>>,
         <<age(45), diagnosis("M54.5", 50), weeks(8)>>,
         <<age(45), diagnosis("M54.5", 95), weeks(0),
           Fact("red_flag_confirmed", Bool(TRUE), 95),
           Fact("red_flag_type", Str("progressive neurological deficit"), 95)>>,
         <<age(45), diagnosis("M79.3", 95), weeks(8)>> }

\* the facts a further extraction may add to a scenario
ExtraFacts ==
    { Fact(fv[1], fv[2], c) :
        fv \in { <<"age", Num(16)>>, <<"age", Num(45)>>, <<"age", Str("forty")>>,
                 <<"primary_diagnosis", Str("M79.3")>>,
                 <<"secondary_diagnosis", Str("M48.06")>>,
                 <<"conservative_treatment_weeks", Num(0)>>,
                 <<"conservative_treatment_weeks", Num(8)>>,
                 <<"red_flag_present", Bool(TRUE)>>,
                 <<"red_flag_confirmed", Bool(TRUE)>>,
                 <<"red_flag_confirmed", Bool(FALSE)>>,
                 <<"red_flag_type", Str("Suspected Tumor of the lumbar spine")>>,
                 <<"red_flag_type", Str("chronic pain")>> },
        c \in {50, 80, 95} }

InsertAt(seq, k, e) == SubSeq(seq, 1, k - 1) \o <<e>> \o SubSeq(seq, k, Len(seq))

\* one more extracted fact joins the case, at any place of the list
AddFact ==
    /\ vpc = "input"
    /\ extra < MaxExtra
    /\ \E f \in ExtraFacts, k \in 1..(Len(case_facts) + 1) :
         case_facts' = InsertAt(case_facts, k, f)
    /\ extra' = extra + 1
    /\ UNCHANGED <<vpc, validation, previous, raised>>

\* validate_criterion on the case facts
Validate ==
    /\ vpc = "input"
    /\ validation' = ValidateCriterion(case_facts)
    /\ vpc' = "validated"
    /\ UNCHANGED <<case_facts, previous, raised, extra>>

\* the confidence of one fact is raised to a value at or above the
\* threshold, and validate_criterion runs again
RaiseConfidence ==
    /\ vpc = "validated"
    /\ \E i \in 1..Len(case_facts),
          c \in {x \in Confidences : x >= min_confidence_threshold} :
         /\ c > case_facts[i].confidence
         /\ case_facts' = [case_facts EXCEPT ![i].confidence = c]
         /\ raised' = i
    /\ previous' = validation
    /\ validation' = ValidateCriterion(case_facts')
    /\ vpc' = "revalidated"
    /\ UNCHANGED extra

(***************************************************************************)
(* RetrievalOrchestrator: RetrievalService of retrieval/service.py.        *)
(* A node of a payload carries its id, its score (numeric or not) and the  *)
(* token counts of its relevant_contents; a span carries the token count   *)
(* of its text.  An upstream call ends "ok", with a PageIndexError, or     *)
(* with an exception of another class (the HTTP client wraps status errors *)
(* only; the SQLite index raises sqlite3 errors).                          *)
(***************************************************************************)
Score(v) == [numeric |-> TRUE, v |-> v]
NoScore == [numeric |-> FALSE, v |-> 0]

Node(id, score, contents) ==
    [node_id |-> id, score |-> score, relevant_contents |-> contents]

\* shapes of one node: a score, and no excerpt or a long one
NodeShapes(scores) == scores \X {<<>>, <<LongSpan>>}

\* payloads of up to MaxNodes nodes whose scores are taken from scores
PayloadsOf(scores) ==
    UNION { { [nodes |-> [i \in 1..n |-> Node(i, sh[i][1], sh[i][2])]] :
                sh \in [1..n -> NodeShapes(scores)] } : n \in 0..MaxNodes }

\* what llm_tree_search returns
TreePayloads == PayloadsOf({NoScore, Score(0), Score(1), Score(5)})

\* what hybrid_tree_search returns (its scores are never read)
HybridPayloads == PayloadsOf({Score(5)})

NoPayload == [nodes |-> <<>>]

\* RetrievalResult
RetrievalResult(node_refs, spans, trajectory, method, confidence, reason) ==
    [node_refs |-> node_refs, spans |-> spans,
     search_trajectory |-> trajectory, retrieval_method |-> method,
     confidence |-> confidence, reason_code |-> reason, error |-> "None"]

\* RetrievalResult.empty
Empty(reason_code, error) ==
    [node_refs |-> <<>>, spans |-> <<>>, search_trajectory |-> <<>>,
     retrieval_method |-> "pageindex-llm", confidence |-> 0,
     reason_code |-> reason_code, error |-> error]

\* the value of result before search has built one
NoRetrieval == Empty("None", "None")

Span(node_id, page_index, tokens) ==
    [node_id |-> node_id, page_index |-> page_index, tokens |-> tokens]

RECURSIVE SpansOf(_)
\* the spans _parse_payload collects, node by node
SpansOf(nodes) ==
    IF nodes = <<>> THEN <<>>
    ELSE LET node == Head(nodes)
         IN [i \in 1..Len(node.relevant_contents) |->
               Span(node.node_id, "page", node.relevant_contents[i])]
            \o SpansOf(Tail(nodes))

\* RetrievalService._parse_payload
ParsePayload(p, method) ==
    LET node_refs == [i \in 1..Len(p.nodes) |-> [node_id |-> p.nodes[i].node_id]]
    IN RetrievalResult(node_refs, SpansOf(p.nodes),
                       [i \in 1..Len(p.nodes) |-> p.nodes[i].node_id],
                       method,
                       IF node_refs # <<>> THEN NodeConfidence ELSE 0,
                       IF node_refs # <<>> THEN "None" ELSE "no_relevant_nodes")

RECURSIVE SumSeq(_)
SumSeq(s) == IF s = <<>> THEN 0 ELSE Head(s) + SumSeq(Tail(s))

RECURSIVE MaxSeq(_)
MaxSeq(s) ==
    IF Len(s) = 1 THEN Head(s)
    ELSE LET m == MaxSeq(Tail(s)) IN IF Head(s) > m THEN Head(s) ELSE m

Ratio(num, den) == [num |-> num, den |-> den]

\* the ambiguity of scores taken as equal whatever they are
AmbiguityIgnoringScores(p) == Ratio(0, 1)

\* RetrievalService._calculate_ambiguity: the variance of the scores divided
\* by their maximum, as the exact ratio
\*   (n * sum(s^2) - sum(s)^2) / (n^2 * max^2)
CalculateAmbiguity(p) ==
    LET numeric == SelectSeq(p.nodes, LAMBDA node : node.score.numeric)
        scores == [i \in 1..Len(numeric) |-> numeric[i].score.v]
        n == Len(scores)
    IN IF n < 2 THEN Ratio(0, 1)
       ELSE LET max_score == MaxSeq(scores)
                total == SumSeq(scores)
                squares == SumSeq([i \in 1..n |-> scores[i] * scores[i]])
            IN IF max_score = 0 THEN Ratio(1, 1)
               ELSE Ratio(n * squares - total * total,
                          n * n * max_score * max_score)

\* ambiguity > threshold, the threshold in percent
Exceeds(ambiguity, threshold) ==
    ambiguity.num * 100 > threshold * ambiguity.den

\* the fallback taken whatever the spans hold
AlwaysUseBm25(spans) == TRUE

\* RetrievalService._should_use_bm25
ShouldUseBm25(spans) ==
    SumSeq([i \in 1..Len(spans) |-> spans[i].tokens]) > node_span_token_threshold

Called(call, how) == [call |-> call, outcome |-> how]

\* search returns r
SearchReturns(r) ==
    /\ spc' = "returned"
    /\ result' = r

\* an exception leaves search
SearchRaises ==
    /\ spc' = "raised"
    /\ UNCHANGED result

\* the except clause of search keeping what the tree search had found
ReturnErrorOnPartialResult ==
    SearchReturns([result EXCEPT !.reason_code = "pageindex_error",
                                 !.error = "PageIndex API error"])

\* a PageIndexError of a search call: the except clause of search
ReturnErrorResult == SearchReturns(Empty("pageindex_error", "PageIndex API error"))

\* search, lines 94-107, on the result res of the tree or the hybrid search
AfterSearch(res) ==
    IF res.spans # <<>> /\ ShouldUseBm25(res.spans)
    THEN /\ spc' = "bm25"
         /\ result' = res
         /\ ref_index' = 1
         /\ tightened' = <<>>
    ELSE /\ SearchReturns(res)
         /\ UNCHANGED <<ref_index, tightened>>

\* RetrievalService.search up to its first upstream call
Search ==
    /\ spc = "start"
    /\ IF doc_id = ""
       THEN SearchReturns(Empty("missing_doc_id",
                                "doc_id is required for retrieval"))
       ELSE IF ~available
       THEN SearchReturns(Empty("pageindex_unavailable",
                                "PAGEINDEX_API_KEY is not configured"))
       ELSE /\ spc' = "tree"
            /\ UNCHANGED result
    /\ UNCHANGED <<doc_id, available, payload, hybrid_payload, tightened,
                   ref_index, upstream>>

\* how a call of the PageIndex client ends
CallOutcomes == {"ok", "PageIndexError", "error"}

\* search: llm_tree_search, _parse_payload, _calculate_ambiguity
LlmTreeSearch ==
    /\ spc = "tree"
    /\ \E how \in CallOutcomes :
         /\ upstream' = Append(upstream, Called("llm_tree_search", how))
         /\ CASE how = "PageIndexError" ->
                   /\ ReturnErrorResult
                   /\ UNCHANGED <<payload, tightened, ref_index>>
              [] how = "error" ->
                   /\ SearchRaises
                   /\ UNCHANGED <<payload, tightened, ref_index>>
              [] how = "ok" ->
                   \E p \in TreePayloads :
                      /\ payload' = p
                      /\ IF Exceeds(CalculateAmbiguity(p), hybrid_threshold)
                         THEN /\ spc' = "hybrid"
                              /\ result' = ParsePayload(p, "pageindex-llm")
                              /\ UNCHANGED <<tightened, ref_index>>
                         ELSE AfterSearch(ParsePayload(p, "pageindex-llm"))
    /\ UNCHANGED <<doc_id, available, hybrid_payload>>

\* search: hybrid_tree_search and _parse_payload of its payload
HybridTreeSearch ==
    /\ spc = "hybrid"
    /\ \E how \in CallOutcomes :
         /\ upstream' = Append(upstream, Called("hybrid_tree_search", how))
         /\ CASE how = "PageIndexError" ->
                   /\ ReturnErrorResult
                   /\ UNCHANGED <<hybrid_payload, tightened, ref_index>>
              [] how = "error" ->
                   /\ SearchRaises
                   /\ UNCHANGED <<hybrid_payload, tightened, ref_index>>
              [] how = "ok" ->
                   \E p \in HybridPayloads :
                      /\ hybrid_payload' = p
                      /\ AfterSearch(ParsePayload(p, "pageindex-hybrid"))
    /\ UNCHANGED <<doc_id, available, payload>>

\* the loop of _bm25_fallback goes to its next node reference, or ends and
\* search replaces the spans when tightened (now t) is not empty
NextReference(t) ==
    /\ tightened' = t
    /\ IF ref_index < Len(result.node_refs)
       THEN /\ ref_index' = ref_index + 1
            /\ UNCHANGED <<spc, result>>
       ELSE /\ UNCHANGED ref_index
            /\ SearchReturns(IF t # <<>>
                             THEN [result EXCEPT !.spans = t,
                                      !.retrieval_method = "bm25-fallback"]
                             ELSE result)

\* the spans added for the hits of one node
HitSpans(ref, hits) == [i \in 1..hits |-> Span(ref.node_id, "None", ParagraphTokens)]

\* RetrievalService._bm25_fallback: one node reference, from get_node_content
\* to the hits of the full-text index
Bm25Fallback ==
    /\ spc = "bm25"
    /\ LET ref == result.node_refs[ref_index]
           fetched(how) == Append(upstream, Called("get_node_content", how))
       IN \/ /\ upstream' = fetched("PageIndexError")
             /\ NextReference(tightened)
          \/ /\ upstream' = fetched("error")
             /\ SearchRaises
             /\ UNCHANGED <<tightened, ref_index>>
          \* a text without paragraphs
          \/ /\ upstream' = fetched("ok")
             /\ NextReference(tightened)
          \/ \E paragraphs \in 1..MaxParagraphs :
               \/ /\ upstream' = fetched("ok")
                               \o <<Called("load_paragraphs", "error")>>
                  /\ SearchRaises
                  /\ UNCHANGED <<tightened, ref_index>>
               \/ /\ upstream' = fetched("ok")
                               \o <<Called("load_paragraphs", "ok"),
                                    Called("top_spans", "error")>>
                  /\ SearchRaises
                  /\ UNCHANGED <<tightened, ref_index>>
               \/ \E hits \in 0..Min(paragraphs, top_k) :
                    /\ upstream' = fetched("ok")
                                 \o <<Called("load_paragraphs", "ok"),
                                      Called("top_spans", "ok")>>
                    /\ NextReference(tightened \o HitSpans(ref, hits))
    /\ UNCHANGED <<doc_id, available, payload, hybrid_payload>>

\* what TreeStoreClient.search_nodes returns: up to MaxNodes nodes, each with
\* a preview text (its summary, or the head of its text) or without one
TreeStoreNodes ==
    UNION { { [i \in 1..n |-> [node_id |-> i, preview |-> pv[i]]] :
                pv \in [1..n -> BOOLEAN] } : n \in 0..MaxNodes }

\* TreeStoreRetrievalService.search
TreeStoreSearch ==
    /\ spc = "start"
    /\ \E nodes \in TreeStoreNodes :
         /\ upstream' = Append(upstream, Called("search_nodes", "ok"))
         /\ IF nodes = <<>>
            THEN SearchReturns(Empty("treestore_no_nodes",
                                     "No TreeStore nodes found"))
            ELSE LET withPreview == SelectSeq(nodes, LAMBDA node : node.preview)
                 IN SearchReturns(
                      [node_refs |-> [i \in 1..Len(nodes) |->
                                        [node_id |-> nodes[i].node_id]],
                       spans |-> [i \in 1..Len(withPreview) |->
                                    Span(withPreview[i].node_id, "None", ShortObs)],
                       search_trajectory |-> <<nodes[1].node_id>>,
                       retrieval_method |-> "treestore",
                       confidence |-> TreeStoreConfidence,
                       reason_code |-> "None",
                       error |-> "None"])
    /\ UNCHANGED <<doc_id, available, payload, hybrid_payload, tightened,
                   ref_index>>

(***************************************************************************)
(* SafetyCalibrator: SafetyService of safety.py, as auth_review of         *)
(* api/routes/reason.py applies it to one decision: self-consistency when  *)
(* the request asks for it, then conformal prediction on the pool of       *)
(* historical scores.  Scores and confidences are in percent; the quantile *)
(* is kept times 100, so that the linear interpolation of numpy.quantile   *)
(* is exact.                                                               *)
(***************************************************************************)
DecisionStatuses == {"met", "missing", "uncertain"}

\* the part of a CriterionResult the calibrator reads and writes
Decision(status, confidence, reason_code) ==
    [status |-> status, confidence |-> confidence, reason_code |-> reason_code]

\* the decisions given to the calibrator
Decisions ==
    { Decision(st, c, rc) : st \in DecisionStatuses,
                            c \in {10, 50, 69, 70, 95},
                            rc \in {"None", "agent_error"} }

\* the values of the historical scores
ScoreValues == {20, 50, 90}

\* the number of scores in pool
PoolSize(pool) == SumSeq([i \in 1..3 |-> pool[<<20, 50, 90>>[i]]])

\* the pools of up to MaxPool historical scores
Pools == { pool \in [ScoreValues -> 0..MaxPool] : PoolSize(pool) <= MaxPool }

\* the scores of pool in ascending order, as numpy.quantile orders them
SortedScores(pool) ==
    [i \in 1..PoolSize(pool) |->
        IF i <= pool[20] THEN 20
        ELSE IF i <= pool[20] + pool[50] THEN 50 ELSE 90]

\* the k-th smallest score with k = ceil((n+1)(1-alpha)), the largest score
\* when k exceeds n, times 100
FiniteSampleQuantile(pool) ==
    LET n == PoolSize(pool)
        k == ((n + 1) * (100 - conformal_alpha) + 99) \div 100
    IN 100 * SortedScores(pool)[Min(k, n)]

\* numpy.quantile(calibration_scores, 1 - alpha), times 100: the linear
\* interpolation between the order statistics around (n-1)(1-alpha)
NumpyQuantile(pool) ==
    LET sorted == SortedScores(pool)
        n == Len(sorted)
        h == (n - 1) * (100 - conformal_alpha)
        lower == h \div 100 + 1
        upper == Min(lower + 1, n)
    IN 100 * sorted[lower] + (h % 100) * (sorted[upper] - sorted[lower])

\* current_score > quantile, also at the quantile
AtOrAboveQuantile(current_score, q) == 100 * current_score >= q

\* current_score > quantile
AboveQuantile(current_score, q) == 100 * current_score > q

\* the statuses of samples in the order of their first vote
RECURSIVE VoteOrder(_)
VoteOrder(s) ==
    IF s = <<>> THEN <<>>
    ELSE LET rest == VoteOrder(SelectSeq(Tail(s),
                                  LAMBDA x : x.status # Head(s).status))
         IN <<Head(s).status>> \o rest

Votes(s, status) == Len(SelectSeq(s, LAMBDA x : x.status = status))

\* max(status_votes.items(), key=votes): the first status with the most votes
RECURSIVE MajorityOf(_, _)
MajorityOf(order, s) ==
    IF Len(order) = 1 THEN Head(order)
    ELSE LET later == MajorityOf(Tail(order), s)
         IN IF Votes(s, Head(order)) >= Votes(s, later)
            THEN Head(order) ELSE later

\* SafetyService._aggregate_samples; the mean in whole percent
AggregateSamples(s) ==
    LET majority_status == MajorityOf(VoteOrder(s), s)
        matching == SelectSeq(s, LAMBDA x : x.status = majority_status)
        total == SumSeq([i \in 1..Len(matching) |-> matching[i].confidence])
    IN [s[1] EXCEPT !.status = majority_status,
                    !.confidence = total \div Len(matching)]

\* k = k or settings.self_consistency_k
SamplesWanted(k) == IF k = 0 THEN self_consistency_k ELSE k

\* auth_review: apply_self_consistency when the request asks for it.  The
\* loop over range(k - 1) has an empty body: evaluate_fn is never called.
ApplySelfConsistency ==
    /\ cpc = "raw"
    /\ cpc' = "voted"
    /\ IF self_consistency
          /\ criterion_result.confidence < self_consistency_threshold
       THEN /\ samples' = <<criterion_result>>
            /\ criterion_result' = AggregateSamples(samples')
       ELSE UNCHANGED <<samples, criterion_result>>
    /\ voted_result' = criterion_result'
    /\ UNCHANGED <<self_consistency, k_arg, raw_result, sampler_calls,
                   calibration_scores, quantile>>

\* SafetyService.apply_conformal_prediction
ApplyConformalPrediction ==
    /\ cpc = "voted"
    /\ cpc' = "calibrated"
    /\ IF PoolSize(calibration_scores) = 0
       THEN UNCHANGED <<criterion_result, quantile>>
       ELSE /\ quantile' = NumpyQuantile(calibration_scores)
            /\ LET current_score == 100 - criterion_result.confidence
               IN IF AboveQuantile(current_score, quantile')
                  THEN criterion_result' =
                         [criterion_result EXCEPT
                            !.status = "uncertain",
                            !.reason_code = "conformal_ambiguity"]
                  ELSE UNCHANGED criterion_result
    /\ UNCHANGED <<self_consistency, k_arg, raw_result, voted_result, samples,
                   sampler_calls, calibration_scores>>

(***************************************************************************)
(* ToolCache: the node-reference cache of ToolExecutor                     *)
(* (tool_handlers.py), constructed by _evaluate_criterion.                 *)
(***************************************************************************)
\* node.node_id of the nodes a retrieval can return
NodeIds == {"n1", "n2"}

\* no tool was called in this evaluation
NoToolResult == [tool |-> "none", node_id |-> "", message |-> "",
                 success |-> FALSE, nodes |-> {}]

\* a cache shared by all executors: the new executor sees the previous one's
SharedCache(previous_cache) == previous_cache

\* ToolExecutor.__init__: self._retrieval_cache = {}, whatever the cache of
\* the executor before held
InitCache(previous_cache) == [id \in {} |-> id]

\* _evaluate_criterion: executor = ToolExecutor(...)
ConstructExecutor ==
    /\ epc = "idle"
    /\ criterion_evaluation < MaxCriterionEvaluations
    /\ epc' = "evaluating"
    /\ criterion_evaluation' = criterion_evaluation + 1
    /\ fts5_service' \in BOOLEAN
    /\ has_policy_document' \in BOOLEAN
    /\ retrieval_cache' = InitCache(retrieval_cache)
    /\ tool_result' = NoToolResult
    /\ UNCHANGED search_log

\* _pi_search: without a document id nothing is retrieved; a retrieval that
\* raises caches nothing; a retrieval that returns caches each node_ref
\* under its node_id, as a dict made by this call
PiSearch ==
    /\ epc = "evaluating"
    /\ IF ~has_policy_document
       THEN /\ tool_result' = [NoToolResult EXCEPT !.tool = "pi_search",
                   !.message = "policy_document_id not found"]
            /\ UNCHANGED <<retrieval_cache, search_log>>
       ELSE /\ Len(search_log) < MaxSearches
            /\ \/ /\ tool_result' = [NoToolResult EXCEPT !.tool = "pi_search",
                         !.message = "PageIndex search failed"]
                  /\ search_log' = Append(search_log,
                         [evaluation |-> criterion_evaluation, nodes |-> {}])
                  /\ UNCHANGED retrieval_cache
               \/ \E node_refs \in SUBSET NodeIds :
                    LET this == Len(search_log) + 1
                    IN /\ search_log' = Append(search_log,
                              [evaluation |-> criterion_evaluation,
                               nodes |-> node_refs])
                       /\ retrieval_cache' =
                            [id \in DOMAIN retrieval_cache \cup node_refs |->
                               IF id \in node_refs
                               THEN [node_id |-> id, search |-> this]
                               ELSE retrieval_cache[id]]
                       /\ tool_result' = [NoToolResult EXCEPT
                              !.tool = "pi_search", !.success = TRUE]
    /\ UNCHANGED <<epc, criterion_evaluation, fts5_service,
                   has_policy_document>>

\* _spans_tighten: node_info = self._retrieval_cache.get(node_id)
SpansTighten ==
    /\ epc = "evaluating"
    /\ \E node_id \in NodeIds :
         tool_result' =
           IF ~fts5_service
           THEN [NoToolResult EXCEPT !.tool = "spans_tighten",
                    !.node_id = node_id,
                    !.message = "FTS5 service not configured"]
           ELSE IF node_id \notin DOMAIN retrieval_cache
           THEN [NoToolResult EXCEPT !.tool = "spans_tighten",
                    !.node_id = node_id, !.message = "not found"]
           ELSE [NoToolResult EXCEPT !.tool = "spans_tighten",
                    !.node_id = node_id,
                    !.message = "requires FTS5 integration",
                    !.nodes = {retrieval_cache[node_id]}]
    /\ UNCHANGED <<epc, criterion_evaluation, fts5_service,
                   has_policy_document, retrieval_cache, search_log>>

\* _policy_xref: the cached nodes whose title matches the criterion id
PolicyXref ==
    /\ epc = "evaluating"
    /\ \E matched \in SUBSET DOMAIN retrieval_cache :
         tool_result' = [NoToolResult EXCEPT !.tool = "policy_xref",
              !.success = TRUE,
              !.nodes = {retrieval_cache[id] : id \in matched}]
    /\ UNCHANGED <<epc, criterion_evaluation, fts5_service,
                   has_policy_document, retrieval_cache, search_log>>

\* _evaluate_criterion returns: its executor is not used again
CriterionReturns ==
    /\ epc = "evaluating"
    /\ epc' = "idle"
    /\ UNCHANGED <<criterion_evaluation, fts5_service, has_policy_document,
                   retrieval_cache, search_log, tool_result>>

(***************************************************************************)
(* Specifications.                                                         *)
(***************************************************************************)
LoopStart ==
    /\ lpc = "start"
    /\ criteria = <<>>
    /\ results = <<>>
    /\ iteration = 0
    /\ llm_calls = 0
    /\ messages = <<>>
    /\ reasoning_trace = <<>>
    /\ tool_history = <<>>
    /\ pending = <<>>
    /\ attempts = 0
    /\ outcome = "none"
    /\ response = NoResponse

LoopIdle ==
    /\ LoopStart
    /\ metadata = [criteria |-> [kind |-> "absent", items |-> <<>>],
                   criterion_id |-> [kind |-> "absent", v |-> ""],
                   policy_document_id |-> "none"]
    /\ max_iterations = 1
    /\ tool_budget = 0

RouterStart ==
    /\ rpc = "new"
    /\ llm_controller = FALSE
    /\ llm_init_error = FALSE
    /\ mode = "none"
    /\ ab_bucket = "none"
    /\ fallbacks = <<>>
    /\ heuristic_result = NotRun
    /\ llm_result = NotRun
    /\ shadow_log = <<>>
    /\ served = NotRun
    /\ evaluations = 0
    /\ case_bundle = CaseBundle("none")
    /\ given_bundle = CaseBundle("none")
    /\ bundle_events = <<>>

ValidatorStart ==
    /\ vpc = "input"
    /\ validation = NoValidation
    /\ previous = NoValidation
    /\ raised = 0
    /\ extra = 0

ValidatorIdle ==
    /\ ValidatorStart
    /\ case_facts = <<>>

RouterIdle ==
    /\ RouterStart
    /\ shadow_mode = FALSE
    /\ use_llm = FALSE
    /\ fallback_enabled = TRUE
    /\ ab_ratio = 0

RetrievalStart ==
    /\ spc = "start"
    /\ payload = NoPayload
    /\ hybrid_payload = NoPayload
    /\ result = NoRetrieval
    /\ tightened = <<>>
    /\ ref_index = 0
    /\ upstream = <<>>

RetrievalIdle ==
    /\ RetrievalStart
    /\ doc_id = ""
    /\ available = FALSE

SafetyStart ==
    /\ cpc = "raw"
    /\ raw_result = criterion_result
    /\ voted_result = criterion_result
    /\ samples = <<>>
    /\ sampler_calls = 0
    /\ quantile = 0

SafetyIdle ==
    /\ criterion_result = Decision("uncertain", 0, "None")
    /\ SafetyStart
    /\ self_consistency = FALSE
    /\ k_arg = 0
    /\ calibration_scores = [v \in ScoreValues |-> 0]

ExecutorIdle ==
    /\ epc = "idle"
    /\ criterion_evaluation = 0
    /\ fts5_service = FALSE
    /\ has_policy_document = FALSE
    /\ retrieval_cache = [id \in {} |-> id]
    /\ search_log = <<>>
    /\ tool_result = NoToolResult

\* one case with a single criterion, every max_iterations up to the bound
Init ==
    /\ LoopStart
    /\ metadata \in
         { [criteria |-> c, criterion_id |-> [kind |-> "absent", v |-> ""],
            policy_document_id |-> "none"] :
              c \in {x \in MdCriteria : Len(x.items) <= 1 /\ x.kind # "str"} }
    /\ max_iterations \in 1..MaxIterations
    /\ tool_budget = MaxToolRuns
    /\ RouterIdle
    /\ ValidatorIdle
    /\ RetrievalIdle
    /\ SafetyIdle
    /\ ExecutorIdle

Next ==
    \/ EvaluateCase /\ UNCHANGED <<routerVars, validatorVars, retrievalVars, safetyVars, executorVars>>
    \/ NextCriterion /\ UNCHANGED <<routerVars, validatorVars, retrievalVars, safetyVars, executorVars>>
    \/ LLMStep /\ UNCHANGED <<routerVars, validatorVars, retrievalVars, safetyVars, executorVars>>
    \/ MaxIterationsReached /\ UNCHANGED <<routerVars, validatorVars, retrievalVars, safetyVars, executorVars>>
    \/ ToolAttempt /\ UNCHANGED <<routerVars, validatorVars, retrievalVars, safetyVars, executorVars>>

Spec == Init /\ [][Next]_vars

\* every shape of the metadata, several criteria, a small budget per case
InitCase ==
    /\ LoopStart
    /\ metadata \in
         { [criteria |-> c, criterion_id |-> k, policy_document_id |-> "none"] :
              c \in MdCriteria, k \in MdCriterionId }
    /\ max_iterations \in 1..CaseIterations
    /\ tool_budget = CaseToolRuns
    /\ RouterIdle
    /\ ValidatorIdle
    /\ RetrievalIdle
    /\ SafetyIdle
    /\ ExecutorIdle

SpecCase == InitCase /\ [][Next]_vars

\* the delegating controller under every setting
InitRouter ==
    /\ LoopIdle
    /\ RouterStart
    /\ shadow_mode \in BOOLEAN
    /\ use_llm \in BOOLEAN
    /\ fallback_enabled \in BOOLEAN
    /\ ab_ratio \in AbRatios
    /\ ValidatorIdle
    /\ RetrievalIdle
    /\ SafetyIdle
    /\ ExecutorIdle

NextRouter ==
    \/ RouterConstruct /\ UNCHANGED <<loopVars, validatorVars, retrievalVars, safetyVars, executorVars>>
    \/ RouterEvaluate /\ UNCHANGED <<loopVars, validatorVars, retrievalVars, safetyVars, executorVars>>
    \/ RunHeuristic /\ UNCHANGED <<loopVars, validatorVars, retrievalVars, safetyVars, executorVars>>
    \/ RunLLM /\ UNCHANGED <<loopVars, validatorVars, retrievalVars, safetyVars, executorVars>>
    \/ MaybeRunLLM /\ UNCHANGED <<loopVars, validatorVars, retrievalVars, safetyVars, executorVars>>
    \/ RouterDone /\ UNCHANGED <<loopVars, validatorVars, retrievalVars, safetyVars, executorVars>>

SpecRouter == InitRouter /\ [][NextRouter]_vars

\* the validator on every scenario, with further facts
InitValidator ==
    /\ LoopIdle
    /\ RouterIdle
    /\ ValidatorStart
    /\ case_facts \in Scenarios
    /\ RetrievalIdle
    /\ SafetyIdle
    /\ ExecutorIdle

NextValidator ==
    \/ AddFact /\ UNCHANGED <<loopVars, routerVars, retrievalVars, safetyVars, executorVars>>
    \/ Validate /\ UNCHANGED <<loopVars, routerVars, retrievalVars, safetyVars, executorVars>>
    \/ RaiseConfidence /\ UNCHANGED <<loopVars, routerVars, retrievalVars, safetyVars, executorVars>>

SpecValidator == InitValidator /\ [][NextValidator]_vars

\* one search, of the PageIndex service with and without a document id and
\* credentials, or of the TreeStore service
InitRetrieval ==
    /\ LoopIdle
    /\ RouterIdle
    /\ ValidatorIdle
    /\ RetrievalStart
    /\ doc_id \in {"", "doc-1"}
    /\ available \in BOOLEAN
    /\ SafetyIdle
    /\ ExecutorIdle

NextRetrieval ==
    \/ Search /\ UNCHANGED <<loopVars, routerVars, validatorVars, safetyVars, executorVars>>
    \/ LlmTreeSearch /\ UNCHANGED <<loopVars, routerVars, validatorVars, safetyVars, executorVars>>
    \/ HybridTreeSearch /\ UNCHANGED <<loopVars, routerVars, validatorVars, safetyVars, executorVars>>
    \/ Bm25Fallback /\ UNCHANGED <<loopVars, routerVars, validatorVars, safetyVars, executorVars>>
    \/ TreeStoreSearch /\ UNCHANGED <<loopVars, routerVars, validatorVars, safetyVars, executorVars>>

SpecRetrieval == InitRetrieval /\ [][NextRetrieval]_vars

\* one decision post-processed on every pool of historical scores
InitSafety ==
    /\ LoopIdle
    /\ RouterIdle
    /\ ValidatorIdle
    /\ RetrievalIdle
    /\ criterion_result \in Decisions
    /\ SafetyStart
    /\ self_consistency \in BOOLEAN
    /\ k_arg \in 0..MaxK
    /\ calibration_scores \in Pools
    /\ ExecutorIdle

NextSafety ==
    \/ ApplySelfConsistency
          /\ UNCHANGED <<loopVars, routerVars, validatorVars, retrievalVars,
                         executorVars>>
    \/ ApplyConformalPrediction
          /\ UNCHANGED <<loopVars, routerVars, validatorVars, retrievalVars,
                         executorVars>>

SpecSafety == InitSafety /\ [][NextSafety]_vars

\* criterion evaluations one after the other, of one case or of several,
\* each with its own tool executor
InitExecutor ==
    /\ LoopIdle
    /\ RouterIdle
    /\ ValidatorIdle
    /\ RetrievalIdle
    /\ SafetyIdle
    /\ ExecutorIdle

NextExecutor ==
    \/ ConstructExecutor
          /\ UNCHANGED <<loopVars, routerVars, validatorVars, retrievalVars,
                         safetyVars>>
    \/ PiSearch
          /\ UNCHANGED <<loopVars, routerVars, validatorVars, retrievalVars,
                         safetyVars>>
    \/ SpansTighten
          /\ UNCHANGED <<loopVars, routerVars, validatorVars, retrievalVars,
                         safetyVars>>
    \/ PolicyXref
          /\ UNCHANGED <<loopVars, routerVars, validatorVars, retrievalVars,
                         safetyVars>>
    \/ CriterionReturns
          /\ UNCHANGED <<loopVars, routerVars, validatorVars, retrievalVars,
                         safetyVars>>

SpecExecutor == InitExecutor /\ [][NextExecutor]_vars

(***************************************************************************)
(* Properties of the ReasoningLoop.                                        *)
(***************************************************************************)
\* C1: every criterion evaluation returns a CriterionResult and no exception
\* leaves the per-criterion boundary, for every LLM behaviour, every finish
\* argument payload and every tool behaviour.
C1_NeverRaises == lpc # "raised"

TerminalOutcomes ==
    {"finish", "finish_parse_error", "raised_finish_not_object",
     "raised_finish_validation", "stall", "tool_timeout", "llm_error",
     "max_iterations"}

\* what is left of one criterion evaluation: iterations, tool calls of the
\* current response, attempts of the current tool call
Variant == <<max_iterations - iteration, Len(pending),
             tool_retry_limit + 1 - attempts>>

LexLess(a, b) ==
    \/ a[1] < b[1]
    \/ a[1] = b[1] /\ a[2] < b[2]
    \/ a[1] = b[1] /\ a[2] = b[2] /\ a[3] < b[3]

LastResult == results[Len(results)]

C2_Step ==
    \* at most max_iterations LLM calls
    /\ llm_calls' <= max_iterations'
    \* a running evaluation moves towards its end with every step
    /\ (outcome = "running" /\ outcome' = "running") =>
          /\ LexLess(Variant', Variant)
          /\ \A k \in 1..3 : Variant'[k] >= 0
    \* it ends in one of the terminal outcomes, with one result or a raise
    /\ (outcome = "running" /\ outcome' # "running") =>
          /\ outcome' \in TerminalOutcomes
          /\ \/ Len(results') = Len(results) + 1 /\ lpc' = "criterion"
             \/ results' = results /\ lpc' = "raised"
    \* and the outcome of an evaluation that ended does not change
    /\ (outcome \in TerminalOutcomes /\ outcome' # outcome) =>
          (lpc = "criterion" /\ outcome' = "running")
    \* the budget is exhausted without a finish: uncertain, max iterations
    /\ (lpc = "llm" /\ llm_calls = max_iterations) =>
          /\ outcome' = "max_iterations"
          /\ llm_calls' = llm_calls
    /\ (outcome = "running" /\ outcome' = "max_iterations") =>
          /\ llm_calls = max_iterations
          /\ LastResult'.status = "uncertain"
          /\ LastResult'.rationale = "Agent error: Max iterations (N) reached"
          /\ \A i \in 1..Len(tool_history) : tool_history[i].action # "finish"

C3_OneResultPerCriterion ==
    lpc \in {"returned", "raised"} =>
       /\ lpc = "returned"
       /\ criteria =
            (IF metadata.criteria.kind = "list" /\ metadata.criteria.items # <<>>
             THEN [i \in 1..Len(metadata.criteria.items) |->
                      metadata.criteria.items[i].v]
             ELSE IF metadata.criterion_id.kind = "str"
                     /\ metadata.criterion_id.v # ""
                  THEN <<metadata.criterion_id.v>>
                  ELSE <<"LCD-L34220:default">>)
       /\ Len(results) = Len(criteria)
       /\ \A i \in 1..Len(criteria) : results[i].criterion_id = criteria[i]

(***************************************************************************)
(* Properties of the ControllerRouter.                                     *)
(***************************************************************************)
\* C4: the mode of an evaluation follows the strict priority shadow, then
\* llm-enabled, then the bucket of the A/B draw when the ratio is positive,
\* then heuristic; the draw is not consulted when shadow or llm-enabled is
\* set.
C4_ModePriority ==
    mode # "none" =>
       /\ mode = (IF shadow_mode THEN "shadow"
                  ELSE IF use_llm THEN "llm"
                  ELSE IF ab_ratio > 0 THEN ab_bucket
                  ELSE "heuristic")
       /\ (shadow_mode \/ use_llm) => ab_bucket = "none"
       /\ (~shadow_mode /\ ~use_llm /\ ab_ratio > 0) => ab_bucket # "none"

\* C5: in llm mode, when the LLM path raises, a fallback metric is recorded;
\* with fallback enabled the caller gets the outcome of the heuristic path,
\* with fallback disabled the error propagates and the heuristic path is
\* not run.
C5_LlmFallback ==
    (mode = "llm" /\ llm_result.kind = "raise") =>
       /\ fallbacks = <<"llm_error">>
       /\ IF fallback_enabled
          THEN \/ rpc = "fallback" /\ heuristic_result = NotRun /\ served = NotRun
               \/ /\ rpc # "fallback"
                  /\ heuristic_result # NotRun
                  /\ served = heuristic_result
          ELSE /\ rpc # "fallback"
               /\ heuristic_result = NotRun
               /\ served = Raised

\* the LLM path raised and the heuristic results were served
C5_Witness ==
    /\ mode = "llm"
    /\ llm_result.kind = "raise"
    /\ fallback_enabled
    /\ rpc = "served"
    /\ served.kind = "result"
    /\ served = heuristic_result

\* C6: in shadow mode the caller is served exactly the heuristic results for
\* every outcome of the LLM path (agreement, divergence, missing criterion,
\* exception), and an exception of the LLM path is never propagated.
C6_ShadowServesHeuristic ==
    mode = "shadow" =>
       /\ llm_result # NotRun =>
             /\ heuristic_result.kind = "result"
             /\ served = heuristic_result
       /\ served.kind = "raise" =>
             /\ heuristic_result.kind = "raise"
             /\ llm_result = NotRun
       /\ rpc = "served" => llm_result # NotRun

\* the LLM path raised in shadow mode and the heuristic results were served
C6_Witness ==
    /\ mode = "shadow"
    /\ rpc = "served"
    /\ llm_result.kind = "raise"
    /\ fallbacks = <<"shadow_llm_error">>
    /\ served.kind = "result"

\* C7: when the LLM controller is enabled by configuration but unavailable
\* because its initialisation failed, evaluate resolves via the heuristic
\* path if fallback is enabled and propagates an error if it is disabled.
C7_UnavailableController ==
    (rpc \in {"served", "raised"} /\ use_llm /\ ~llm_controller /\ llm_init_error) =>
       IF fallback_enabled
       THEN heuristic_result # NotRun /\ served = heuristic_result
       ELSE served = Raised

(***************************************************************************)
(* Properties of the RuleValidator.                                        *)
(***************************************************************************)
Validated == vpc \in {"validated", "revalidated"}

LowConfidence(v) == v.confidence < min_confidence_threshold

\* C8: the status is uncertain (insufficient_documentation) if the age, the
\* diagnosis or the treatment sub-check has a confidence below the
\* threshold, whether or not a sub-check failed; otherwise not_ready
\* (criteria_not_met) if age or diagnosis is invalid or treatment is invalid
\* without a valid red-flag bypass; otherwise ready (no reason code).
C8_StatusPriority ==
    Validated =>
       LET v == validation.validations
       IN IF LowConfidence(v.age) \/ LowConfidence(v.diagnosis)
                \/ LowConfidence(v.treatment)
          THEN /\ validation.status = "uncertain"
               /\ validation.reason_code = "insufficient_documentation"
          ELSE IF ~v.age.is_valid \/ ~v.diagnosis.is_valid
                     \/ (~v.treatment.is_valid /\ ~v.red_flags.is_valid)
          THEN /\ validation.status = "not_ready"
               /\ validation.reason_code = "criteria_not_met"
          ELSE /\ validation.status = "ready"
               /\ validation.reason_code = "None"

\* a failed age check together with a diagnosis of low confidence: uncertain
C8_Witness ==
    /\ Validated
    /\ validation.status = "uncertain"
    /\ ~validation.validations.age.is_valid
    /\ ~LowConfidence(validation.validations.age)
    /\ LowConfidence(validation.validations.diagnosis)

SubChecks == {"age", "diagnosis", "red_flags", "treatment"}

StaysValid(k) ==
    previous.validations[k].is_valid => validation.validations[k].is_valid

\* C10, as stated: raising the confidence of any single fact to a value at or
\* above the threshold never turns a valid sub-check invalid, also when a
\* field has several facts with different values.
C10_Monotone ==
    vpc = "revalidated" => \A k \in SubChecks : StaysValid(k)

\* C10, amended: the diagnosis and red-flag sub-checks stay valid under every
\* such raise; the age sub-check stays valid when the raised fact is no age
\* fact or its value meets the minimum age; the treatment sub-check stays
\* valid when the raised fact is no treatment fact, or its value meets the
\* minimum weeks, or the red-flag sub-check was valid.
C10_MonotoneAmended ==
    vpc = "revalidated" =>
       LET f == case_facts[raised]
       IN /\ StaysValid("diagnosis")
          /\ StaysValid("red_flags")
          /\ (f.field # "age"
                 \/ (IsNumeric(f.value) /\ f.value.n >= min_age))
                => StaysValid("age")
          /\ (f.field # "conservative_treatment_weeks"
                 \/ (IsNumeric(f.value) /\ f.value.n >= min_treatment_weeks)
                 \/ previous.validations.red_flags.is_valid)
                => StaysValid("treatment")

\* two treatment facts with different values; the confidence of the one
\* that meets the minimum is raised and the sub-check stays valid
C10_Witness ==
    /\ vpc = "revalidated"
    /\ case_facts[raised].field = "conservative_treatment_weeks"
    /\ case_facts[raised].value.n >= min_treatment_weeks
    /\ \E i \in 1..Len(case_facts) :
          /\ case_facts[i].field = "conservative_treatment_weeks"
          /\ case_facts[i].value.n < min_treatment_weeks
    /\ ~previous.validations.red_flags.is_valid
    /\ previous.validations.treatment.is_valid
    /\ validation.validations.treatment.is_valid

LastToolRecord == tool_history[Len(tool_history)]

\* this step made one attempt of a tool call
ToolAttempted == lpc = "tools" /\ Len(tool_history') = Len(tool_history) + 1

C11_Step ==
    \* at most retry_limit + 1 attempts per tool call
    /\ attempts' <= tool_retry_limit + 1
    /\ ToolAttempted => LastToolRecord'.attempt <= tool_retry_limit + 1
    \* the last attempt timed out: uncertain, tool_timeout, at once
    /\ (ToolAttempted /\ LastToolRecord'.timeout
           /\ LastToolRecord'.attempt = tool_retry_limit + 1) =>
          /\ outcome' = "tool_timeout"
          /\ lpc' = "criterion"
          /\ LastResult'.status = "uncertain"
          /\ LastResult'.reason_code = "tool_timeout"
          /\ \A i \in 1..(tool_retry_limit + 1) :
                LET r == tool_history'[Len(tool_history') - (tool_retry_limit + 1) + i]
                IN r.timeout /\ ~r.success /\ r.attempt = i
    \* a timeout that is not the last attempt is retried
    /\ (ToolAttempted /\ LastToolRecord'.timeout
           /\ LastToolRecord'.attempt <= tool_retry_limit) =>
          (outcome' = "running" /\ lpc' = "tools" /\ pending' = pending)
    \* and nothing more is called for that criterion
    /\ (outcome = "tool_timeout" /\ outcome' = outcome) =>
          (tool_history' = tool_history /\ llm_calls' = llm_calls
             /\ pending' = pending /\ results' = results)
    /\ outcome' = "tool_timeout" => outcome \in {"running", "tool_timeout"}

\* C11: a tool call is attempted at most retry_limit + 1 times; when all of
\* these attempts time out the evaluation ends at once with status uncertain
\* and reason code tool_timeout, and no further tool call or LLM call is made
\* for that criterion.
C11_TimeoutAbstains == [][C11_Step]_vars

\* both attempts of the first of two requested tool calls timed out; the
\* second call is never made
C11_Witness ==
    /\ outcome = "tool_timeout"
    /\ Len(pending) = 2
    /\ Len(tool_history) = tool_retry_limit + 1
    /\ LastToolRecord.timeout
    /\ LastToolRecord.attempt = tool_retry_limit + 1
    /\ LastResult.reason_code = "tool_timeout"
    /\ llm_calls < max_iterations

\* the record at i is a first attempt that timed out and the record after it
\* is the second attempt of the same call, a success
TimeoutThenSuccess(h, i) ==
    /\ i + 1 <= Len(h)
    /\ h[i].attempt = 1 /\ h[i].timeout /\ ~h[i].success
    /\ h[i + 1].attempt = 2 /\ ~h[i + 1].timeout /\ h[i + 1].success
    /\ h[i + 1].action = h[i].action

C12_Step ==
    \* the first attempt timed out: the call is retried
    /\ (ToolAttempted /\ LastToolRecord'.timeout /\ LastToolRecord'.attempt = 1) =>
          /\ outcome' = "running" /\ lpc' = "tools"
          /\ pending' = pending /\ attempts' = 1
          /\ reasoning_trace' = reasoning_trace
    \* the second attempt succeeded: two records for the call, in call order,
    \* the observation is recorded and the loop goes on
    /\ (ToolAttempted /\ attempts = 1 /\ LastToolRecord'.success) =>
          /\ TimeoutThenSuccess(tool_history', Len(tool_history))
          /\ Len(tool_history) = 1 \/ tool_history[Len(tool_history) - 1].attempt # 1
                \/ ~tool_history[Len(tool_history) - 1].timeout
          /\ outcome' = "running" /\ lpc' \in {"tools", "llm"}
          /\ pending' = Tail(pending)
          /\ Len(reasoning_trace') = Len(reasoning_trace) + 1
    \* every second attempt on record follows the timeout of a first one
    /\ \A i \in 1..Len(tool_history') :
          tool_history'[i].attempt = 2 =>
             /\ i > 1
             /\ tool_history'[i - 1].attempt = 1
             /\ tool_history'[i - 1].timeout
             /\ tool_history'[i - 1].action = tool_history'[i].action
    \* a later finish gives the decision its status
    /\ (outcome = "running" /\ outcome' = "finish") =>
          /\ LastResult'.status \in {"met", "missing", "uncertain"}
          /\ LastResult'.reason_code =
                (IF LastResult'.status = "uncertain" THEN "agent_uncertain" ELSE "null")
          /\ LastToolRecord'.action = "finish"
          /\ SubSeq(tool_history', 1, Len(tool_history)) = tool_history

\* C12: with retry_limit = 1, a tool that times out on its first attempt and
\* succeeds on its second leads to a successful decision (the status of the
\* later finish), and the tool history holds exactly two records for that
\* call, in call order: attempt 1 a timeout failure, attempt 2 a success.
C12_RetryThenSuccess == [][C12_Step]_vars

\* pi_search timed out, succeeded on the retry, and the next response finished
\* with status met
C12_Witness ==
    /\ tool_retry_limit = 1
    /\ outcome = "finish"
    /\ Len(tool_history) = 3
    /\ TimeoutThenSuccess(tool_history, 1)
    /\ tool_history[3].action = "finish"
    /\ LastResult.status = "met"
    /\ llm_calls = 2

Ended == outcome \in TerminalOutcomes

\* the LLM answered every call of this evaluation, and no answer called a
\* tool or finish
NeverCalledAnything ==
    /\ response.kind = "ok"
    /\ response.tool_calls = <<>>
    /\ tool_history = <<>>
    /\ reasoning_trace = <<>>

MaxIterationsResult ==
    /\ outcome = "max_iterations"
    /\ llm_calls = max_iterations
    /\ LastResult.status = "uncertain"
    /\ LastResult.rationale = "Agent error: Max iterations (N) reached"

\* C13, as stated: an LLM that never calls a tool and never calls finish
\* ends, with max_iterations = N, after exactly N LLM calls with status
\* uncertain and the max-iterations rationale, for every finish reason of
\* those responses.
C13_ExactlyN == (Ended /\ NeverCalledAnything) => MaxIterationsResult

\* C13, amended: the same for every finish reason other than "stop".
C13_ExactlyNAmended ==
    /\ (Ended /\ NeverCalledAnything /\ response.finish_reason # "stop") =>
          MaxIterationsResult
    /\ (lpc = "llm" /\ outcome = "running" /\ response.kind = "ok"
           /\ response.tool_calls = <<>>) =>
          response.finish_reason # "stop"

\* two answers without tool calls, the last with finish reason length
C13_Witness ==
    /\ NeverCalledAnything
    /\ MaxIterationsResult
    /\ max_iterations = MaxIterations
    /\ response.finish_reason = "length"

\* the record of an attempt that raised something other than a timeout
ToolFailed(r) == ~r.success /\ ~r.timeout

C14_Step ==
    (ToolAttempted /\ ToolFailed(LastToolRecord')) =>
       \* the evaluation is not aborted
       /\ outcome' = "running"
       /\ results' = results
       \* the failure observation is appended to history and trace
       /\ messages' = Append(messages, ToolMessage(ShortObs))
       /\ reasoning_trace' = Append(reasoning_trace,
              [step |-> iteration, action |-> Head(pending).name,
               observation |-> ShortObs])
       /\ LastToolRecord'.action = Head(pending).name
       \* and the loop goes on: next tool call, or next LLM call
       /\ pending' = Tail(pending)
       /\ lpc' = (IF Tail(pending) = <<>> THEN "llm" ELSE "tools")
       /\ iteration' = iteration

\* C14: a tool call that raises an exception other than a timeout does not
\* abort the evaluation: the exception becomes a failure observation appended
\* to the conversation history and to the reasoning trace, and the loop goes
\* on to the next tool call or the next LLM call while iterations remain.
C14_ToolErrorContinues == [][C14_Step]_vars

\* the first tool call raised, the second call of the same response ran, and
\* the next LLM call finished with status met
C14_Witness ==
    /\ outcome = "finish"
    /\ LastResult.status = "met"
    /\ llm_calls = 2
    /\ Len(tool_history) = 3
    /\ ToolFailed(tool_history[1])
    /\ tool_history[2].success
    /\ Len(reasoning_trace) = 3
    /\ \E i \in 1..Len(messages) :
          messages[i].role = "tool" /\ messages[i].content = ShortObs

\* this step made an LLM call
LLMCalled == llm_calls' = llm_calls + 1

StallRationale == "Agent error: Agent stopped without calling finish()"

C15_Step ==
    \* no tool call, no finish, finish reason stop: uncertain, in that
    \* iteration
    /\ (LLMCalled /\ response'.kind = "ok" /\ response'.tool_calls = <<>>
           /\ response'.finish_reason = "stop") =>
          /\ outcome' = "stall"
          /\ lpc' = "criterion"
          /\ Len(results') = Len(results) + 1
          /\ LastResult'.status = "uncertain"
          /\ LastResult'.rationale = StallRationale
          /\ LastResult'.criterion_id = CurrentCriterion
    \* no other response stalls
    /\ (outcome = "running" /\ outcome' = "stall") =>
          /\ LLMCalled
          /\ response'.tool_calls = <<>>
          /\ response'.finish_reason = "stop"
    \* and no LLM call follows
    /\ outcome = "stall" => ~LLMCalled

\* C15: a response with no tool call and no finish whose finish reason is
\* stop ends the evaluation in that iteration with status uncertain and the
\* rationale "agent stopped without calling finish", with no further LLM
\* call.
C15_Stall == [][C15_Step]_vars

\* a stall in the first iteration, with an iteration left
C15_Witness ==
    /\ outcome = "stall"
    /\ lpc = "returned"
    /\ llm_calls = 1
    /\ llm_calls < max_iterations
    /\ response.finish_reason = "stop"
    /\ LastResult.status = "uncertain"
    /\ LastResult.rationale = StallRationale

\* the steps of result r are the steps recorded in trace, in order
KeepsSteps(r, trace) ==
    /\ Len(r.reasoning_trace) = Len(trace)
    /\ \A i \in 1..Len(trace) :
          /\ r.reasoning_trace[i].step = trace[i].step
          /\ r.reasoning_trace[i].action = trace[i].action

C16_Step ==
    \* the LLM call fails: uncertain, confidence 0, agent_error, at once,
    \* with the steps of the earlier iterations
    /\ (LLMCalled /\ response'.kind = "error") =>
          /\ outcome' = "llm_error"
          /\ lpc' = "criterion"
          /\ Len(results') = Len(results) + 1
          /\ LastResult'.status = "uncertain"
          /\ LastResult'.confidence = 0
          /\ LastResult'.reason_code = "agent_error"
          /\ LastResult'.rationale = "Agent error: LLM call failed"
          /\ KeepsSteps(LastResult', reasoning_trace)
          /\ tool_history' = tool_history
    \* and nothing more is called
    /\ outcome = "llm_error" =>
          ((~LLMCalled /\ tool_history' = tool_history) \/ outcome' = "running")

\* C16: if the LLM call fails at any iteration the evaluation ends at once
\* with status uncertain, confidence 0 and reason code agent_error, keeping
\* the reasoning steps recorded in earlier iterations.
C16_LlmFailure == [][C16_Step]_vars

\* the LLM fails in the second iteration, after a tool call was recorded
C16_Witness ==
    /\ outcome = "llm_error"
    /\ llm_calls = 2
    /\ LastResult.reason_code = "agent_error"
    /\ LastResult.confidence = 0
    /\ Len(LastResult.reasoning_trace) >= 1
    /\ KeepsSteps(LastResult, reasoning_trace)

\* the arguments of the finish call of the last response
FinishCalled == FirstFinish(response.tool_calls) # 0
FinishArguments == response.tool_calls[FirstFinish(response.tool_calls)].args

\* text that is not JSON, JSON that is no object, or an object with a
\* confidence or an evidence page outside its range
Malformed(a) ==
    \/ a.kind \in {"bad_json", "non_object"}
    \/ a.has_confidence /\ (a.confidence < 0 \/ a.confidence > 100)
    \/ a.evidence_doc /\ a.has_page /\ a.evidence_page < 1

\* C17: whenever the arguments of a finish call are malformed (not valid
\* JSON, JSON that is not an object, or an object whose confidence or
\* evidence page is outside its allowed range) the evaluation ends with a
\* terminal result of status uncertain and reason code agent_error.
C17_MalformedFinish ==
    (outcome \notin {"none", "running"} /\ FinishCalled
        /\ Malformed(FinishArguments)) =>
       /\ lpc # "raised"
       /\ LastResult.status = "uncertain"
       /\ LastResult.reason_code = "agent_error"

\* C18: every tool observation is cut to at most 500 characters before it is
\* appended to the conversation history and before it is appended to the
\* reasoning trace: no message of role tool and no trace observation is
\* longer than 500 characters.
C18_ObservationsTruncated ==
    /\ \A i \in 1..Len(messages) :
          messages[i].role = "tool" => messages[i].content <= 500
    /\ \A i \in 1..Len(reasoning_trace) :
          reasoning_trace[i].observation <= 500

\* C19: in every CriterionResult, for every terminal outcome, the reasoning
\* steps carry the numbers 1, 2, ..., m in list order, with no gap and no
\* repeated number, also when one response requests several tool calls and
\* when an iteration records no step.
C19_ConsecutiveSteps ==
    \A k \in 1..Len(results) :
       \A i \in 1..Len(results[k].reasoning_trace) :
          results[k].reasoning_trace[i].step = i

\* the response of this step holds a finish call and other tool calls
FinishAmongOthers ==
    /\ llm_calls' = llm_calls + 1
    /\ response'.kind = "ok"
    /\ Len(response'.tool_calls) > 1
    /\ \E i \in 1..Len(response'.tool_calls) :
          response'.tool_calls[i].name = "finish"

C25_Step ==
    FinishAmongOthers =>
       LET a == FinishArguments'
       IN \* none of the other tool calls is executed
          /\ lpc' # "tools"
          /\ pending' = <<>>
          /\ tool_budget' = tool_budget
          /\ \A i \in (Len(tool_history) + 1)..Len(tool_history') :
                tool_history'[i].action = "finish"
          \* the evaluation ends in this iteration, with the finish decision
          /\ ~Malformed(a) =>
                /\ outcome' = "finish"
                /\ Len(results') = Len(results) + 1
                /\ LastResult'.status = FinishStatus(a)
                /\ LastResult'.confidence = FinishConfidence(a)

\* C25: if an LLM response contains a finish call together with other tool
\* calls, in any position of the list, the evaluation terminates with the
\* finish decision in that iteration and none of the other tool calls of that
\* response is executed, not even those listed before finish.
C25_FinishPreempts == [][C25_Step]_vars

\* the positions of bundle_events at which the annotation was written
Annotations == {i \in 1..Len(bundle_events) : bundle_events[i] = "annotate"}

\* case id, policy id, facts and every metadata entry other than the
\* policy-document-id annotation are as the request created them
BundleFrame ==
    /\ case_bundle.case_id = given_bundle.case_id
    /\ case_bundle.policy_id = given_bundle.policy_id
    /\ case_bundle.fields = given_bundle.fields
    /\ DOMAIN case_bundle.metadata = DOMAIN given_bundle.metadata
    /\ \A key \in DOMAIN given_bundle.metadata \ {"policy_document_id"} :
          case_bundle.metadata[key] = given_bundle.metadata[key]

\* C28 as stated: an evaluation leaves the case id, the policy id, the facts
\* and every metadata entry but the policy-document-id annotation unchanged,
\* on every path and for every outcome; the annotation is written once, at
\* the start of the evaluation and before any criterion is evaluated.
C28_BundleImmutable ==
    /\ BundleFrame
    /\ rpc \in {"served", "raised"} =>
          /\ Annotations = {1}
          /\ case_bundle.metadata.policy_document_id = "doc-123"

\* C28 amended: the frame holds on every path and for every outcome; the
\* annotation is written at most once per evaluation, exactly when the LLM
\* controller evaluates the case (llm mode, and shadow mode after the
\* heuristic path), at the start of the LLM controller's evaluation and
\* before it evaluates any criterion; the heuristic path never writes it.
C28_BundleImmutableAmended ==
    /\ BundleFrame
    /\ Cardinality(Annotations) <= 1
    /\ rpc \in {"served", "raised"} =>
          (Annotations # {} <=> (llm_controller /\ llm_result # NotRun))
    /\ \A i \in Annotations :
          /\ case_bundle.metadata.policy_document_id = "doc-123"
          /\ \A j \in 1..(i - 1) : bundle_events[j] = "heuristic_criterion"
          /\ \A j \in 1..(i - 1) : mode = "shadow"
    /\ Annotations = {} =>
          case_bundle.metadata.policy_document_id
             = given_bundle.metadata.policy_document_id

\* a shadow evaluation served the heuristic results and the LLM controller
\* annotated the bundle after the heuristic path had evaluated its criterion
C28_Witness ==
    /\ rpc = "served"
    /\ mode = "shadow"
    /\ bundle_events = <<"heuristic_criterion", "annotate", "llm_criterion">>
    /\ given_bundle = CaseBundle("doc-old")
    /\ case_bundle = CaseBundle("doc-123")

\* C30: soundness of the RuleValidator.  Whenever validate_criterion returns
\* status ready, the age sub-check and the diagnosis sub-check are valid with
\* a confidence at or above the threshold, and the treatment sub-check is
\* valid, by its duration or by a valid red-flag bypass; ready is never
\* returned while one of the three is invalid, nor with a reason code.
C30_ReadySound ==
    (Validated /\ validation.status = "ready") =>
        LET v == validation.validations
        IN /\ v["age"].is_valid
           /\ ~LowConfidence(v["age"])
           /\ v["diagnosis"].is_valid
           /\ ~LowConfidence(v["diagnosis"])
           /\ v["treatment"].is_valid
           /\ \/ v["treatment"].reason = "Conservative treatment meets minimum"
              \/ /\ v["treatment"].reason = BypassReason
                 /\ v["red_flags"].is_valid
           /\ validation.reason_code = "None"

\* a case with one more fact than its scenario is ready by the duration of
\* the treatment, without a red flag
C30_Witness ==
    /\ Validated
    /\ extra = 1
    /\ validation.status = "ready"
    /\ ~validation.validations["red_flags"].is_valid
    /\ validation.validations["treatment"].is_valid

(***************************************************************************)
(* Properties of the RetrievalOrchestrator.                                *)
(***************************************************************************)
\* some upstream call of this search ended with an error
UpstreamFailed == \E i \in 1..Len(upstream) : upstream[i].outcome # "ok"

\* no nodes, no spans, confidence 0, with a reason code and an error string
IsEmptyResult(r) ==
    /\ r.node_refs = <<>>
    /\ r.spans = <<>>
    /\ r.confidence = 0
    /\ r.reason_code # "None"
    /\ r.error # "None"

\* C20: search never raises; for a missing document id, missing credentials
\* and any error raised by the tree search, the hybrid search, the
\* node-content fetch or the full-text index, it returns an empty result (no
\* nodes, no spans, confidence 0) that carries a reason code and an error
\* string.
C20_NeverRaises ==
    /\ spc # "raised"
    /\ (/\ spc = "returned"
        /\ result.retrieval_method # "treestore"
        /\ (doc_id = "" \/ ~available \/ UpstreamFailed))
          => IsEmptyResult(result)

\* C21: every RetrievalResult a search returns (tree, hybrid, full-text
\* fallback or TreeStore) with its error set has no node references and no
\* spans.
C21_ErrorImpliesEmpty ==
    (spc = "returned" /\ result.error # "None")
       => (result.node_refs = <<>> /\ result.spans = <<>>)

\* the hybrid search failed after the tree search had found nodes, and the
\* search returned its error result
C21_Witness ==
    /\ spc = "returned"
    /\ result.error # "None"
    /\ payload.nodes # <<>>
    /\ Len(upstream) = 2
    /\ upstream[2] = Called("hybrid_tree_search", "PageIndexError")

\* a search of the PageIndex service returned a result without an error
Successful ==
    /\ spc = "returned"
    /\ result.error = "None"
    /\ result.retrieval_method # "treestore"

\* the positions of upstream at which call was made
Runs(call) == {i \in 1..Len(upstream) : upstream[i].call = call}

\* the variance of the normalized numeric scores of p; the variance of equal
\* scores, and of fewer than two scores, is 0
ScoreVariance(p) ==
    LET numeric == SelectSeq(p.nodes, LAMBDA node : node.score.numeric)
        scores == [i \in 1..Len(numeric) |-> numeric[i].score.v]
        n == Len(scores)
        total == SumSeq(scores)
        squares == SumSeq([i \in 1..n |-> scores[i] * scores[i]])
    IN IF n < 2 \/ n * squares = total * total THEN Ratio(0, 1)
       ELSE Ratio(n * squares - total * total,
                  n * n * MaxSeq(scores) * MaxSeq(scores))

\* the ambiguity of p: the variance of its normalized scores, and 1 when
\* there are two scores or more and the largest is 0
Ambiguity(p) ==
    LET numeric == SelectSeq(p.nodes, LAMBDA node : node.score.numeric)
        scores == [i \in 1..Len(numeric) |-> numeric[i].score.v]
    IN IF Len(scores) >= 2 /\ MaxSeq(scores) = 0 THEN Ratio(1, 1)
       ELSE ScoreVariance(p)

\* the tree search ran once, and the hybrid search once and after it when
\* escalate holds, and not at all otherwise
RunsAsEscalated(escalate) ==
    /\ Runs("llm_tree_search") = {1}
    /\ Runs("hybrid_tree_search") = IF escalate THEN {2} ELSE {}

\* C26 as stated: a successful search runs the tree search exactly once, and
\* the hybrid search, once and after it, if and only if the variance of the
\* normalized scores of the tree output exceeds the threshold; when the hybrid
\* search runs, the returned node references, spans, trajectory and method
\* tag are those of the hybrid output.
C26_Escalation ==
    Successful =>
       /\ RunsAsEscalated(Exceeds(ScoreVariance(payload), hybrid_threshold))
       /\ Runs("hybrid_tree_search") # {} =>
             result = ParsePayload(hybrid_payload, "pageindex-hybrid")

\* C26 amended: the hybrid search runs if and only if the ambiguity of the
\* tree output exceeds the threshold, the ambiguity being the variance of the
\* normalized scores, or 1 when the largest of two or more scores is 0; when
\* it runs, the returned node references and trajectory are those of the
\* hybrid output, and so are the spans and the method tag unless the
\* span-length fallback replaced them; the method tag is never the tree's.
C26_EscalationAmended ==
    Successful =>
       /\ RunsAsEscalated(Exceeds(Ambiguity(payload), hybrid_threshold))
       /\ Runs("hybrid_tree_search") # {} =>
             LET hybrid == ParsePayload(hybrid_payload, "pageindex-hybrid")
             IN /\ result.node_refs = hybrid.node_refs
                /\ result.search_trajectory = hybrid.search_trajectory
                /\ result.confidence = hybrid.confidence
                /\ result.retrieval_method # "pageindex-llm"
                /\ \/ /\ result.spans = hybrid.spans
                      /\ result.retrieval_method = "pageindex-hybrid"
                   \/ /\ result.spans = tightened
                      /\ tightened # <<>>
                      /\ result.retrieval_method = "bm25-fallback"

\* a successful search escalated on scores 1 and 5 and returned the hybrid
\* output, which differs from the tree output
C26_Witness ==
    /\ Successful
    /\ Len(payload.nodes) = 2
    /\ payload.nodes[1].score = Score(1)
    /\ payload.nodes[2].score = Score(5)
    /\ Runs("hybrid_tree_search") = {2}
    /\ result.retrieval_method = "pageindex-hybrid"
    /\ Len(result.node_refs) = 1

\* the result the span-length fallback starts from: the hybrid output when
\* the hybrid search ran, the tree output otherwise
Selected ==
    IF Runs("hybrid_tree_search") # {}
    THEN ParsePayload(hybrid_payload, "pageindex-hybrid")
    ELSE ParsePayload(payload, "pageindex-llm")

\* the aggregate span token count of r exceeds the threshold
SpansTooLong(r) ==
    SumSeq([i \in 1..Len(r.spans) |-> r.spans[i].tokens])
       > node_span_token_threshold

\* the spans and the method tag of the returned result are those selected,
\* and no node text was fetched
FallbackNotTaken ==
    /\ result = Selected
    /\ Runs("get_node_content") = {}

\* C27 as stated: whenever the aggregate span token count of the selected
\* result exceeds the threshold, the spans of the returned result are the
\* paragraphs re-ranked by the full-text index and the method tag is the
\* fallback's; whenever it does not, spans and method tag are unchanged and no
\* node text is fetched.
C27_SpanFallback ==
    Successful =>
       IF SpansTooLong(Selected)
       THEN /\ result.spans = tightened
            /\ tightened # <<>>
            /\ result.retrieval_method = "bm25-fallback"
       ELSE FallbackNotTaken

\* C27 amended: whenever the count exceeds the threshold the text of every
\* selected node is requested, and the spans of the returned result are the
\* re-ranked paragraphs, with the fallback tag, if the full-text index
\* yielded at least one; if it yielded none the spans and the method tag are
\* unchanged.  Whenever the count does not exceed the threshold, spans and
\* method tag are unchanged and no node text is fetched.
C27_SpanFallbackAmended ==
    Successful =>
       IF SpansTooLong(Selected)
       THEN /\ Cardinality(Runs("get_node_content")) = Len(Selected.node_refs)
            /\ IF tightened # <<>>
               THEN /\ result = [Selected EXCEPT
                                   !.spans = tightened,
                                   !.retrieval_method = "bm25-fallback"]
                    /\ \A i \in 1..Len(tightened) :
                          /\ tightened[i].page_index = "None"
                          /\ tightened[i].tokens = ParagraphTokens
                          /\ \E j \in 1..Len(Selected.node_refs) :
                                Selected.node_refs[j].node_id = tightened[i].node_id
               ELSE result = Selected
       ELSE FallbackNotTaken

\* a search whose spans were too long returned the paragraphs of one node,
\* the text of the other node could not be fetched
C27_Witness ==
    /\ Successful
    /\ SpansTooLong(Selected)
    /\ result.retrieval_method = "bm25-fallback"
    /\ Len(result.spans) = 1
    /\ \E i \in Runs("get_node_content") : upstream[i].outcome = "PageIndexError"

(***************************************************************************)
(* Properties of the SafetyCalibrator.                                     *)
(***************************************************************************)
\* C22: with alpha = 0.1 and n historical scores, the threshold conformal
\* prediction computes is the finite-sample quantile: the k-th smallest
\* historical score with k = ceil((n+1)(1-alpha)), for every non-empty pool.
C22_FiniteSampleQuantile ==
    (cpc = "calibrated" /\ PoolSize(calibration_scores) > 0)
       => quantile = FiniteSampleQuantile(calibration_scores)

\* C23 as stated: a decision whose confidence is above the computed conformal
\* threshold is never marked uncertain with reason conformal_ambiguity, and
\* with an empty pool the decision is returned unchanged.
C23_AboveThresholdNeverMarked ==
    cpc = "calibrated" =>
       /\ PoolSize(calibration_scores) = 0 => criterion_result = voted_result
       /\ (/\ PoolSize(calibration_scores) > 0
           /\ 100 * voted_result.confidence > quantile)
             => ~(/\ criterion_result.status = "uncertain"
                  /\ criterion_result.reason_code = "conformal_ambiguity")

\* C23 amended: a decision whose non-conformity score, 1 - confidence, is at
\* most the computed conformal threshold is returned unchanged, hence never
\* marked uncertain with reason conformal_ambiguity; with an empty pool the
\* decision is returned with status, confidence and reason code unchanged.
C23_WithinThresholdNeverMarked ==
    cpc = "calibrated" =>
       /\ PoolSize(calibration_scores) = 0 => criterion_result = voted_result
       /\ (/\ PoolSize(calibration_scores) > 0
           /\ 100 * (100 - voted_result.confidence) <= quantile)
             => criterion_result = voted_result

\* a met decision whose non-conformity score equals the threshold of a
\* non-empty pool has been through conformal prediction
C23_Witness ==
    /\ cpc = "calibrated"
    /\ PoolSize(calibration_scores) > 0
    /\ voted_result.status = "met"
    /\ 100 * (100 - voted_result.confidence) = quantile

\* self-consistency was applied to a decision below the trigger threshold
SelfConsistencyTriggered ==
    /\ cpc # "raw"
    /\ self_consistency
    /\ raw_result.confidence < self_consistency_threshold

\* C24: for a decision below the self-consistency trigger threshold the
\* calibrator gathers k samples in total (the original and k-1 from the
\* sampler), sets the status to the majority status and the confidence to the
\* mean confidence of the agreeing samples; a decision at or above the
\* threshold is returned unchanged and the sampler is not called.
C24_SelfConsistency ==
    cpc = "voted" =>
       IF SelfConsistencyTriggered
       THEN /\ Len(samples) = SamplesWanted(k_arg)
            /\ sampler_calls = SamplesWanted(k_arg) - 1
            /\ samples[1] = raw_result
            /\ criterion_result.status = MajorityOf(VoteOrder(samples), samples)
            /\ criterion_result.confidence = AggregateSamples(samples).confidence
       ELSE /\ self_consistency => criterion_result = raw_result
            /\ sampler_calls = 0

(***************************************************************************)
(* Properties of the ToolCache.                                            *)
(***************************************************************************)
\* the cached node was made by a policy search of the current evaluation
FromThisEvaluation(node) ==
    /\ node.search \in 1..Len(search_log)
    /\ search_log[node.search].evaluation = criterion_evaluation

\* a policy search of the current evaluation has retrieved
SearchedInThisEvaluation ==
    \E i \in 1..Len(search_log) :
        search_log[i].evaluation = criterion_evaluation

\* C29: the node-reference cache of the tool executor is empty at the start
\* of each criterion evaluation and is filled only by policy searches of
\* that evaluation: a node a policy search returned while one criterion was
\* evaluated is never visible to a narrow-node-spans or cross-reference
\* call made while another criterion is evaluated.
C29_CachePerCriterion ==
    epc = "evaluating" =>
        /\ ~SearchedInThisEvaluation => DOMAIN retrieval_cache = {}
        /\ \A id \in DOMAIN retrieval_cache :
               FromThisEvaluation(retrieval_cache[id])
        /\ \A node \in tool_result.nodes : FromThisEvaluation(node)

\* a second evaluation asks to narrow the spans of a node that a policy
\* search of the first evaluation returned, and the node is not found
C29_Witness ==
    /\ epc = "evaluating"
    /\ criterion_evaluation = 2
    /\ fts5_service
    /\ \E i \in 1..Len(search_log) :
           /\ search_log[i].evaluation = 1
           /\ "n1" \in search_log[i].nodes
    /\ tool_result.tool = "spans_tighten"
    /\ tool_result.node_id = "n1"
    /\ tool_result.message = "not found"

====
